---- MODULE Spec2Model ----
(***************************************************************************)
(* A model of the Gyro toolchain: tokenizer, recursive-descent parser,     *)
(* bytecode generator and stack virtual machine.                           *)
(*                                                                         *)
(* The sources are TypeScript; the model follows the JavaScript that they  *)
(* run as.  In particular a member that the OpCode enum does not declare   *)
(* reads as the value undefined, and a switch selects the first case       *)
(* label that is strictly equal to the scrutinee and, without a break,     *)
(* falls through into the following cases.                                 *)
(***************************************************************************)
EXTENDS Integers, Sequences, FiniteSets, TLC

VARIABLES
    pc,            \* where the caller of the VM is: "idle", "running", "done", "error", "hang"
    bytecode,      \* GyroVM.bytecode
    constantPool,  \* GyroVM.constantPool
    stack,         \* GyroVM.stack, the operand stack (bottom first)
    ip,            \* GyroVM.ip, 0-based as in the source
    running,       \* GyroVM.running
    callStack,     \* GyroVM.callStack (oldest frame first)
    framePointer,  \* GyroVM.framePointer
    globals,       \* GyroVM.globals
    rl,            \* GyroVM.rl: TRUE while a readline interface is open
    heap,          \* the array objects that array values refer to
    output,        \* what console.log has printed
    result,        \* the value run() resolved with
    error,         \* the error run() (or compile) threw
    compilations,  \* the calls of compile() so far: the source and the outcome of each
    files,         \* the contents that compileToFile has written, oldest first
    content,       \* the file content that the entry point running a .gbc file read
    codegen        \* a code generator at work on one body: its fields and the
                   \* scopes that the blocks it is in have saved

vmVars == <<bytecode, constantPool, stack, ip, running, callStack,
            framePointer, globals, rl, heap, output>>
\* What belongs to the callers of the compiler and of the VM.
hostVars == <<compilations, files, content, codegen>>
vars == <<pc, vmVars, result, error, hostVars>>

-----------------------------------------------------------------------------
(* Values.  A runtime value carries its JavaScript type with it.           *)

\* The JavaScript value undefined where it stands among numbers (a bytecode
\* element, an operand): an integer no program of the model uses otherwise.
undefined == -1000000

\* The JavaScript value null in the same places: what JSON.parse gives for an
\* element that was written as null.
null == -2000000

\* ToNumber of a bytecode element, as <, >=, - and ++ apply it: null is 0.
ElementNumber(x) == IF x = null THEN 0 ELSE x

Num(n) == [t |-> "number", v |-> n]
Str(s) == [t |-> "string", v |-> s]
Bool(b) == [t |-> "boolean", v |-> b]
Null == [t |-> "null"]
Undef == [t |-> "undefined"]
NaN == [t |-> "NaN"]
Infinity(negative) == [t |-> "Infinity", neg |-> negative]
Arr(r) == [t |-> "array", ref |-> r]

IsNumber(x) == x.t = "number"

\* a ?? d
Coalesce(x, d) == IF x.t \in {"null", "undefined"} THEN d ELSE x

\* ToNumber, for the operand types the arithmetic of the model meets (no
\* string of the model spells a number).
ToNumber(x) ==
    CASE x.t = "number" -> x
      [] x.t = "NaN" -> NaN
      [] x.t = "boolean" -> IF x.v THEN Num(1) ELSE Num(0)
      [] x.t = "null" -> Num(0)
      [] x.t = "undefined" -> NaN
      [] x.t = "string" -> IF x.v = "" THEN Num(0) ELSE NaN

\* !!x
Truthy(x) ==
    CASE x.t = "number" -> x.v # 0
      [] x.t = "NaN" -> FALSE
      [] x.t = "boolean" -> x.v
      [] x.t = "string" -> x.v # ""
      [] x.t \in {"null", "undefined"} -> FALSE
      [] x.t = "array" -> TRUE

\* String(n) for an integer n
DigitChar == <<"0", "1", "2", "3", "4", "5", "6", "7", "8", "9">>
RECURSIVE NatToString(_)
NatToString(n) ==
    IF n < 10 THEN DigitChar[n + 1]
    ELSE NatToString(n \div 10) \o DigitChar[(n % 10) + 1]
IntToString(n) == IF n < 0 THEN "-" \o NatToString(-n) ELSE NatToString(n)

\* Array.prototype.join(",") on the elements of an array that holds no array:
\* null and undefined give the empty string.
RECURSIVE Join(_)
JsToString(x) ==
    CASE x.t = "string" -> x.v
      [] x.t = "number" -> IntToString(x.v)
      [] x.t = "NaN" -> "NaN"
      [] x.t = "boolean" -> IF x.v THEN "true" ELSE "false"
      [] x.t = "null" -> "null"
      [] x.t = "undefined" -> "undefined"
Join(elems) ==
    IF elems = <<>> THEN ""
    ELSE LET first == IF Head(elems).t \in {"null", "undefined"} THEN ""
                      ELSE JsToString(Head(elems))
         IN  IF Len(elems) = 1 THEN first ELSE first \o "," \o Join(Tail(elems))

\* ToPrimitive: an array becomes the string of its elements (h holds the arrays).
ToPrimitive(x, h) == IF x.t = "array" THEN Str(Join(h[x.ref])) ELSE x

\* a === b; an array is equal only to itself.
StrictEquals(a, b) == a.t # "NaN" /\ a = b

-----------------------------------------------------------------------------
(* The opcode table.                                                       *)

OpCode ==
    [PUSH |-> 1, POP |-> 2, DUP |-> 3, SWAP |-> 4,
     ADD |-> 16, SUB |-> 17, MUL |-> 18, DIV |-> 19,
     EQ |-> 32, NEQ |-> 33, GT |-> 34, LT |-> 35, GTE |-> 36, LTE |-> 37,
     JMP |-> 48, JZ |-> 49, JNZ |-> 50, CALL |-> 51, RET |-> 52, FUN |-> 53,
     CONST |-> 64, STORE |-> 65, LOAD |-> 66,
     PRINT |-> 80, INPUT |-> 81, EXIT |-> 82,
     HALT |-> 240, BREAK |-> 241, CONTINUE |-> 242,
     ARRAY_CREATE |-> 96, ARRAY_GET |-> 97, ARRAY_SET |-> 98]

\* The expression OpCode.<name> as it evaluates: the member's number, or
\* undefined for a name the enum does not declare.
Op(name) == IF name \in DOMAIN OpCode THEN OpCode[name] ELSE undefined

\* OpcodeName[op] || 'UNKNOWN'
OpcodeName(op) ==
    LET named == {n \in DOMAIN OpCode : OpCode[n] = op}
    IN  IF named = {} THEN "UNKNOWN"
        ELSE LET n == CHOOSE m \in named : TRUE
             IN  IF n = "ARRAY_SET" THEN "ARRAR_SET" ELSE n

-----------------------------------------------------------------------------
(* The virtual machine.                                                    *)

\* array[i] of a JavaScript array held as a sequence: undefined off its ends.
At(seq, i) == IF i >= 0 /\ i < Len(seq) THEN seq[i + 1] ELSE undefined

\* The case labels of run()'s switch, in source order.
SwitchCases ==
    <<"PUSH_CONST", "PUSH_INT", "PUSH_FLOAT", "PUSH_TRUE", "PUSH_FALSE",
      "PUSH_NULL", "POP", "DUP", "SWAP", "ADD", "SUB", "MUL", "DIV", "NEG",
      "EQ", "NEQ", "GT", "LT", "GTE", "LTE", "NOT", "JMP", "JZ", "JNZ",
      "CALL", "RET", "STORE_GLOBAL", "LOAD_GLOBAL", "STORE_LOCAL",
      "LOAD_LOCAL", "PRINT", "INPUT", "EXIT", "HALT", "ARRAY_CREATE",
      "ARRAY_GET", "ARRAY_SET">>

\* The case that switch (op) selects: the first label strictly equal to op,
\* or the default clause.
CaseOf(op) ==
    LET hits == {i \in 1..Len(SwitchCases) : Op(SwitchCases[i]) = op}
    IN  IF hits = {} THEN "default"
        ELSE SwitchCases[CHOOSE i \in hits : \A j \in hits : i <= j]

\* The loop condition of run() holds and the next instruction is of case c.
Fetch(c) ==
    /\ pc = "running"
    /\ running
    /\ ip < Len(bytecode)
    /\ CaseOf(At(bytecode, ip)) = c

NoError == [kind |-> "none", opcode |-> ""]
RuntimeError(kind) == [kind |-> kind, opcode |-> ""]

\* The instruction completes: the loop goes round again.
Continue(newStack, newIp) ==
    /\ stack' = newStack
    /\ ip' = newIp
    /\ UNCHANGED <<pc, bytecode, constantPool, running, callStack,
                   framePointer, globals, rl, heap, output, result, error, hostVars>>

\* The instruction throws: run() rejects, with the stack as the throw left it.
Throw(e, newStack, newIp) ==
    /\ pc' = "error"
    /\ error' = e
    /\ stack' = newStack
    /\ ip' = newIp
    /\ UNCHANGED <<bytecode, constantPool, running, callStack,
                   framePointer, globals, rl, heap, output, result, hostVars>>

\* ensureStack(needed), called when this.ip is the index after the opcode.
StackUnderflow == [kind |-> "Stack underflow", opcode |-> OpcodeName(At(bytecode, ip))]
ensureStack(needed) == Len(stack) >= needed

\* stack.pop() leaves this; Top(n) is the n-th value from the top.
Pop(n) == SubSeq(stack, 1, Len(stack) - n)
Top(n) == stack[Len(stack) - n + 1]

ExecPushConst ==
    /\ Fetch("PUSH_CONST")
    /\ LET constIndex == At(bytecode, ip + 1)
       IN  IF constIndex = undefined \/ ElementNumber(constIndex) < 0
                \/ ElementNumber(constIndex) >= Len(constantPool)
           THEN Throw(RuntimeError("Invalid constant pool index"), stack, ip + 2)
           ELSE \* an array has no property named null
                Continue(Append(stack, IF constIndex = null THEN Undef
                                       ELSE constantPool[constIndex + 1]), ip + 2)

ExecPop ==
    /\ Fetch("POP")
    /\ IF ~ensureStack(1) THEN Throw(StackUnderflow, stack, ip + 1)
       ELSE Continue(Pop(1), ip + 1)

ExecDup ==
    /\ Fetch("DUP")
    /\ IF ~ensureStack(1) THEN Throw(StackUnderflow, stack, ip + 1)
       ELSE Continue(Append(stack, Top(1)), ip + 1)

ExecSwap ==
    /\ Fetch("SWAP")
    /\ IF ~ensureStack(2) THEN Throw(StackUnderflow, stack, ip + 1)
       ELSE Continue(Pop(2) \o <<Top(1), Top(2)>>, ip + 1)

\* The JavaScript operators +, - and * on two values. + concatenates when an
\* operand is a string; otherwise both operands are converted to numbers.
JsArith(c, a0, b0) ==
    LET a == ToPrimitive(a0, heap)
        b == ToPrimitive(b0, heap)
    IN
    IF c = "ADD" /\ (a.t = "string" \/ b.t = "string")
    THEN Str(JsToString(a) \o JsToString(b))
    ELSE LET x == ToNumber(a)
             y == ToNumber(b)
         IN  IF x.t = "NaN" \/ y.t = "NaN" THEN NaN
             ELSE CASE c = "ADD" -> Num(x.v + y.v)
                    [] c = "SUB" -> Num(x.v - y.v)
                    [] c = "MUL" -> Num(x.v * y.v)

ExecArith(c) ==
    /\ Fetch(c)
    /\ IF ~ensureStack(2) THEN Throw(StackUnderflow, stack, ip + 1)
       ELSE LET b == Top(1)
                a == Top(2)
            IN  Continue(Append(Pop(2), JsArith(c, Coalesce(a, Num(0)), Coalesce(b, Num(0)))),
                         ip + 1)

\* A division that rounds toward zero instead, as Math.trunc(x / y) would.
TruncatingDiv(x, y) ==
    LET ax == IF x < 0 THEN -x ELSE x
        ay == IF y < 0 THEN -y ELSE y
    IN  IF (x < 0) = (y < 0) THEN ax \div ay ELSE -(ax \div ay)

\* Math.floor(x / y) for integers x and y, y not 0: the quotient is formed
\* on the magnitudes and rounded down.
MathFloorDiv(x, y) ==
    LET ax == IF x < 0 THEN -x ELSE x
        ay == IF y < 0 THEN -y ELSE y
        q == ax \div ay
        exact == q * ay = ax
    IN  IF (x < 0) = (y < 0) THEN q
        ELSE IF exact THEN -q ELSE -q - 1

ExecDiv ==
    /\ Fetch("DIV")
    /\ IF ~ensureStack(2) THEN Throw(StackUnderflow, stack, ip + 1)
       ELSE LET b == Top(1)
                a == Top(2)
                x == ToNumber(ToPrimitive(Coalesce(a, Num(0)), heap))
                y == ToNumber(ToPrimitive(Coalesce(b, Num(1)), heap))
            IN  IF StrictEquals(b, Num(0))
                THEN Throw(RuntimeError("Division by zero"), Pop(2), ip + 1)
                ELSE IF x.t = "NaN" \/ y.t = "NaN" \/ (x.v = 0 /\ y.v = 0)
                THEN Continue(Append(Pop(2), NaN), ip + 1)
                ELSE IF y.v = 0
                THEN Continue(Append(Pop(2), Infinity(x.v < 0)), ip + 1)
                ELSE Continue(Append(Pop(2), Num(MathFloorDiv(x.v, y.v))), ip + 1)

ExecEq ==
    /\ Fetch("EQ")
    /\ IF ~ensureStack(2) THEN Throw(StackUnderflow, stack, ip + 1)
       ELSE Continue(Append(Pop(2), Bool(StrictEquals(Top(2), Top(1)))), ip + 1)

ExecNeq ==
    /\ Fetch("NEQ")
    /\ IF ~ensureStack(2) THEN Throw(StackUnderflow, stack, ip + 1)
       ELSE Continue(Append(Pop(2), Bool(~StrictEquals(Top(2), Top(1)))), ip + 1)

\* The JavaScript relational operators on two values that are not both
\* strings: both are converted to numbers, and NaN compares false.
JsCompare(c, a, b) ==
    CASE ~(a.t \in {"string", "array"} /\ b.t \in {"string", "array"}) ->
        LET x == ToNumber(ToPrimitive(a, heap))
            y == ToNumber(ToPrimitive(b, heap))
        IN  IF x.t = "NaN" \/ y.t = "NaN" THEN FALSE
            ELSE CASE c = "GT" -> x.v > y.v
                   [] c = "LT" -> x.v < y.v
                   [] c = "GTE" -> x.v >= y.v
                   [] c = "LTE" -> x.v <= y.v

ExecCompare(c) ==
    /\ Fetch(c)
    /\ IF ~ensureStack(2) THEN Throw(StackUnderflow, stack, ip + 1)
       ELSE Continue(Append(Pop(2), Bool(JsCompare(c, Top(2), Top(1)))), ip + 1)

\* addr === undefined || addr < 0 || addr >= this.bytecode.length
InvalidAddress(addr) ==
    addr = undefined \/ ElementNumber(addr) < 0 \/ ElementNumber(addr) >= Len(bytecode)

ExecJmp ==
    /\ Fetch("JMP")
    /\ LET addr == At(bytecode, ip + 1)
       IN  IF InvalidAddress(addr)
           THEN Throw(RuntimeError("Invalid jump address"), stack, ip + 2)
           ELSE \* an ip of null is read as 0 by the loop, and ip++ leaves 1
                Continue(stack, ElementNumber(addr))

ExecJz ==
    /\ Fetch("JZ")
    /\ IF ~ensureStack(1) THEN Throw(StackUnderflow, stack, ip + 1)
       ELSE LET addr == At(bytecode, ip + 1)
                cond == Top(1)
            IN  IF InvalidAddress(addr)
                THEN Throw(RuntimeError("Invalid jump address"), Pop(1), ip + 2)
                ELSE Continue(Pop(1), IF ~Truthy(cond) THEN ElementNumber(addr) ELSE ip + 2)

ExecJnz ==
    /\ Fetch("JNZ")
    /\ IF ~ensureStack(1) THEN Throw(StackUnderflow, stack, ip + 1)
       ELSE LET addr == At(bytecode, ip + 1)
                cond == Top(1)
            IN  IF InvalidAddress(addr)
                THEN Throw(RuntimeError("Invalid jump address"), Pop(1), ip + 2)
                ELSE Continue(Pop(1), IF Truthy(cond) THEN ElementNumber(addr) ELSE ip + 2)

\* A CALL that takes the whole operand stack as the caller's.
CalleeFramePointerAtTop(stk, numArgs) == Len(stk)

\* this.stack.length - numArgs
CalleeFramePointer(stk, numArgs) == Len(stk) - ElementNumber(numArgs)

ExecCall ==
    /\ Fetch("CALL")
    /\ LET funcAddr == At(bytecode, ip + 1)
           numArgs == At(bytecode, ip + 2)
       IN  IF numArgs = undefined \/ InvalidAddress(funcAddr)
           THEN Throw(RuntimeError("Invalid CALL operands"), stack, ip + 3)
           ELSE /\ callStack' = Append(callStack,
                                       [returnIp |-> ip + 3,
                                        framePointer |-> framePointer,
                                        numArgs |-> numArgs])
                /\ framePointer' = CalleeFramePointer(stack, numArgs)
                /\ ip' = ElementNumber(funcAddr)
                /\ UNCHANGED <<pc, bytecode, constantPool, stack, running,
                               globals, rl, heap, output, result, error, hostVars>>

\* A RET that pops nothing but the return value.
TruncateNothing(stk, fp) == stk

\* The stack after: while (this.stack.length > fp) this.stack.pop();
Truncate(stk, fp) == IF Len(stk) > fp THEN SubSeq(stk, 1, fp) ELSE stk

ExecRet ==
    /\ Fetch("RET")
    /\ LET returnValue == IF stack = <<>> THEN Undef ELSE Top(1)
           rest == IF stack = <<>> THEN <<>> ELSE Pop(1)
       IN  IF callStack = <<>>
           THEN /\ running' = FALSE
                /\ stack' = Append(rest, returnValue)
                /\ ip' = ip + 1
                /\ UNCHANGED <<pc, bytecode, constantPool, callStack, framePointer,
                               globals, rl, heap, output, result, error, hostVars>>
           ELSE LET frame == callStack[Len(callStack)]
                IN  /\ callStack' = SubSeq(callStack, 1, Len(callStack) - 1)
                    /\ ip' = frame.returnIp
                    /\ framePointer' = frame.framePointer
                    /\ IF frame.framePointer < 0
                       THEN \* the length of an array is never below 0: the loop
                            \* that pops down to the frame pointer does not end
                            /\ pc' = "hang"
                            /\ stack' = <<>>
                       ELSE /\ pc' = pc
                            /\ stack' = LET cut == Truncate(rest, frame.framePointer)
                                        IN  IF returnValue # Undef
                                            THEN Append(cut, returnValue)
                                            ELSE cut
                    /\ UNCHANGED <<bytecode, constantPool, running, globals, rl,
                                   heap, output, result, error, hostVars>>

ExecPrint ==
    /\ Fetch("PRINT")
    /\ IF ~ensureStack(1) THEN Throw(StackUnderflow, stack, ip + 1)
       ELSE /\ output' = Append(output, Top(1))
            /\ stack' = Pop(1)
            /\ ip' = ip + 1
            /\ UNCHANGED <<pc, bytecode, constantPool, running, callStack,
                           framePointer, globals, rl, heap, result, error, hostVars>>

\* The lines that the user may type at the prompt.
InputLines == {"", "hi"}

ExecInput ==
    /\ Fetch("INPUT")
    /\ \E line \in InputLines :
          /\ rl' = TRUE
          /\ stack' = Append(stack, Str(line))
          /\ ip' = ip + 1
          /\ UNCHANGED <<pc, bytecode, constantPool, running, callStack,
                         framePointer, globals, heap, output, result, error, hostVars>>

ExecExit ==
    /\ Fetch("EXIT")
    /\ running' = FALSE
    /\ ip' = ip + 1
    /\ UNCHANGED <<pc, bytecode, constantPool, stack, callStack, framePointer,
                   globals, rl, heap, output, result, error, hostVars>>

ExecHalt ==
    /\ Fetch("HALT")
    /\ running' = FALSE
    /\ ip' = ip + 1
    /\ UNCHANGED <<pc, bytecode, constantPool, stack, callStack, framePointer,
                   globals, rl, heap, output, result, error, hostVars>>

\* A test of the index that lets the negative numbers through.
NotIndexLax(x) == x.t # "number" \/ "fraction" \in DOMAIN x

\* typeof x !== 'number' || x < 0 || !Number.isInteger(x)
NotIndex(x) == x.t # "number" \/ "fraction" \in DOMAIN x \/ x.v < 0

ExecArrayCreate ==
    /\ Fetch("ARRAY_CREATE")
    /\ IF ~ensureStack(1) THEN Throw(StackUnderflow, stack, ip + 1)
       ELSE LET size == Top(1)
            IN  IF NotIndex(size)
                THEN Throw(RuntimeError("ARRAY_CREATE expects a non-negative integer size"),
                           Pop(1), ip + 1)
                ELSE /\ heap' = Append(heap, [i \in 1..size.v |-> Null])
                     /\ stack' = Append(Pop(1), Arr(Len(heap) + 1))
                     /\ ip' = ip + 1
                     /\ UNCHANGED <<pc, bytecode, constantPool, running, callStack,
                                    framePointer, globals, rl, output, result, error, hostVars>>

ExecArrayGet ==
    /\ Fetch("ARRAY_GET")
    /\ IF ~ensureStack(2) THEN Throw(StackUnderflow, stack, ip + 1)
       ELSE LET index == Top(1)
                arr == Top(2)
            IN  IF arr.t # "array"
                THEN Throw(RuntimeError("ARRAY_GET expects an array"), Pop(2), ip + 1)
                ELSE IF NotIndex(index) \/ index.v >= Len(heap[arr.ref])
                THEN Throw(RuntimeError("Array index out of bounds or invalid"),
                           Pop(2), ip + 1)
                ELSE Continue(Append(Pop(2), heap[arr.ref][index.v + 1]), ip + 1)

ExecArraySet ==
    /\ Fetch("ARRAY_SET")
    /\ IF ~ensureStack(3) THEN Throw(StackUnderflow, stack, ip + 1)
       ELSE LET value == Top(1)
                index == Top(2)
                arr == Top(3)
            IN  IF arr.t # "array"
                THEN Throw(RuntimeError("ARRAY_SET expects an array"), Pop(3), ip + 1)
                ELSE IF NotIndex(index) \/ index.v >= Len(heap[arr.ref])
                THEN Throw(RuntimeError("Array index out of bounds or invalid"),
                           Pop(3), ip + 1)
                ELSE /\ heap' = [heap EXCEPT ![arr.ref][index.v + 1] = value]
                     /\ stack' = Pop(3)
                     /\ ip' = ip + 1
                     /\ UNCHANGED <<pc, bytecode, constantPool, running, callStack,
                                    framePointer, globals, rl, output, result, error, hostVars>>

\* The message is built with op.toString(16), which null does not have.
ExecDefault ==
    /\ Fetch("default")
    /\ Throw(RuntimeError(IF At(bytecode, ip) = null THEN "TypeError" ELSE "Unknown opcode"),
             stack, ip + 1)

\* The loop of run() has ended: the readline interface is closed and the
\* promise resolves with this.stack.pop().
RunReturn ==
    /\ pc = "running"
    /\ ~(running /\ ip < Len(bytecode))
    /\ pc' = "done"
    /\ rl' = FALSE
    /\ result' = IF stack = <<>> THEN Undef ELSE Top(1)
    /\ stack' = IF stack = <<>> THEN <<>> ELSE Pop(1)
    /\ UNCHANGED <<bytecode, constantPool, ip, running, callStack, framePointer,
                   globals, heap, output, error, hostVars>>

\* new GyroVM(bytecode, constantPool); arrays is what the array values of the
\* constant pool refer to.
Construct(code, pool, arrays) ==
    /\ bytecode' = code
    /\ constantPool' = pool
    /\ heap' = arrays
    /\ stack' = <<>>
    /\ ip' = 0
    /\ running' = TRUE
    /\ globals' = <<>>
    /\ callStack' = <<>>
    /\ framePointer' = 0
    /\ rl' = FALSE
    /\ output' = output

\* new GyroVM(bytecode, constantPool) followed by run()
GyroVM(code, pool, arrays) ==
    /\ pc' = "running"
    /\ Construct(code, pool, arrays)
    /\ UNCHANGED <<result, error>>

-----------------------------------------------------------------------------
(* The tokenizer.  A source is a sequence of characters (strings of length *)
(* one); positions in it are 0-based as in the code.                       *)

Digits == {"0", "1", "2", "3", "4", "5", "6", "7", "8", "9"}
Letters == {"a", "b", "c", "d", "e", "f", "g", "h", "i", "j", "k", "l", "m",
            "n", "o", "p", "q", "r", "s", "t", "u", "v", "w", "x", "y", "z",
            "A", "B", "C", "D", "E", "F", "G", "H", "I", "J", "K", "L", "M",
            "N", "O", "P", "Q", "R", "S", "T", "U", "V", "W", "X", "Y", "Z", "_"}
isDigit(c) == c \in Digits
isAlpha(c) == c \in Letters
isAlphaNumeric(c) == isAlpha(c) \/ isDigit(c)
DigitValue(c) == CHOOSE d \in 0..9 : DigitChar[d + 1] = c

keywords ==
    [fun |-> "FUN", if |-> "IF", else |-> "ELSE", while |-> "WHILE",
     return |-> "RETURN", true |-> "TRUE", false |-> "FALSE", null |-> "NULL",
     let |-> "LET"]

\* The tokens of one character.
Punctuation ==
    [c \in {"(", ")", "{", "}", "[", "]", ":", "?", ",", ".", ";", "+", "-", "*", "%"} |->
        CASE c = "(" -> "LEFT_PAREN" [] c = ")" -> "RIGHT_PAREN"
          [] c = "{" -> "LEFT_BRACE" [] c = "}" -> "RIGHT_BRACE"
          [] c = "[" -> "LEFT_BRACKET" [] c = "]" -> "RIGHT_BRACKET"
          [] c = ":" -> "COLON" [] c = "?" -> "QUESTION"
          [] c = "," -> "COMMA" [] c = "." -> "DOT" [] c = ";" -> "SEMICOLON"
          [] c = "+" -> "PLUS" [] c = "-" -> "MINUS" [] c = "*" -> "STAR"
          [] c = "%" -> "PERCENT"]

\* The operators that an = may follow: the token without and with it.
WithEqual ==
    [c \in {"!", "=", "<", ">"} |->
        CASE c = "!" -> <<"BANG", "BANG_EQUAL">>
          [] c = "=" -> <<"EQUAL", "EQUAL_EQUAL">>
          [] c = "<" -> <<"LESS", "LESS_EQUAL">>
          [] c = ">" -> <<"GREATER", "GREATER_EQUAL">>]

escapes == [c \in {"n", "t", "r", "\\", "\""} |->
               CASE c = "n" -> "\n" [] c = "t" -> "\t" [] c = "r" -> "\r"
                 [] c = "\\" -> "\\" [] c = "\"" -> "\""]

LexError(kind, l, c) == [kind |-> kind, line |-> l, column |-> c]

\* The scanner's position: i, line and column, with the tokens so far.
peek(src, st) == IF st.i < Len(src) THEN src[st.i + 1] ELSE ""
peekNext(src, st) == IF st.i + 1 < Len(src) THEN src[st.i + 2] ELSE ""
isAtEnd(src, st) == st.i >= Len(src)

advance(src, st) ==
    IF peek(src, st) = "\n"
    THEN [st EXCEPT !.i = @ + 1, !.line = @ + 1, !.column = 1]
    ELSE [st EXCEPT !.i = @ + 1, !.column = @ + 1]

addToken(st, type, value, startCol) ==
    [st EXCEPT !.tokens = Append(@, [type |-> type, value |-> value,
                                     line |-> st.line, column |-> startCol])]

\* while (!isAtEnd() && peek() !== '\n') advance();
RECURSIVE skipLine(_, _)
skipLine(src, st) ==
    IF ~isAtEnd(src, st) /\ peek(src, st) # "\n" THEN skipLine(src, advance(src, st))
    ELSE st

\* The scan for the end of a block comment; found tells whether it ended.
RECURSIVE skipBlock(_, _)
skipBlock(src, st) ==
    IF isAtEnd(src, st) THEN [st |-> st, found |-> FALSE]
    ELSE IF peek(src, st) = "*" /\ peekNext(src, st) = "/"
    THEN [st |-> advance(src, advance(src, st)), found |-> TRUE]
    ELSE skipBlock(src, advance(src, st))

\* The loop over the characters of a string literal; value is what it read.
RECURSIVE scanString(_, _, _)
scanString(src, st, value) ==
    IF ~isAtEnd(src, st) /\ peek(src, st) # "\""
    THEN LET ch == peek(src, st)
             st1 == advance(src, st)
         IN  IF ch = "\\"
             THEN IF isAtEnd(src, st1)
                  THEN [st1 EXCEPT !.err =
                           LexError("Unterminated string literal (expected escape char)",
                                    st1.line, st1.column)]
                  ELSE LET esc == peek(src, st1)
                       IN  scanString(src, advance(src, st1),
                                      value \o (IF esc \in DOMAIN escapes
                                                THEN escapes[esc] ELSE esc))
             ELSE scanString(src, st1, value \o ch)
    ELSE [st EXCEPT !.text = value]

\* while (isDigit(peek())) num += advance(); the digits read are appended.
RECURSIVE scanDigits(_, _, _)
scanDigits(src, st, num) ==
    IF isDigit(peek(src, st)) THEN scanDigits(src, advance(src, st), Append(num, peek(src, st)))
    ELSE [st EXCEPT !.text = num]

RECURSIVE scanIdentifier(_, _, _)
scanIdentifier(src, st, ident) ==
    IF isAlphaNumeric(peek(src, st))
    THEN scanIdentifier(src, advance(src, st), ident \o peek(src, st))
    ELSE [st EXCEPT !.text = ident]

\* parseFloat of a run of digits
RECURSIVE DigitsValue(_)
DigitsValue(num) ==
    IF num = <<>> THEN 0
    ELSE 10 * DigitsValue(SubSeq(num, 1, Len(num) - 1)) + DigitValue(num[Len(num)])

\* The digits of a fraction without the zeros that end it.
RECURSIVE StripZeros(_)
StripZeros(digits) ==
    IF digits # <<>> /\ digits[Len(digits)] = "0"
    THEN StripZeros(SubSeq(digits, 1, Len(digits) - 1))
    ELSE digits

\* parseFloat(num): an integer, or a number with a fraction (its digits kept);
\* a fraction of zeros only leaves the integer.
Float(whole, fraction) ==
    IF StripZeros(fraction) = <<>> THEN Num(whole)
    ELSE [t |-> "number", v |-> whole, fraction |-> StripZeros(fraction)]

\* One turn of the tokenizer's loop.
scanToken(src, st0) ==
    LET startCol == st0.column
        c == peek(src, st0)
        st == advance(src, st0)
    IN  CASE c \in DOMAIN Punctuation -> addToken(st, Punctuation[c], Undef, startCol)
          [] c \in DOMAIN WithEqual ->
                IF peek(src, st) = "="
                THEN addToken(advance(src, st), WithEqual[c][2], Undef, startCol)
                ELSE addToken(st, WithEqual[c][1], Undef, startCol)
          [] c = "&" ->
                IF peek(src, st) = "&"
                THEN addToken(advance(src, st), "AND_AND", Undef, startCol)
                ELSE [st EXCEPT !.err = LexError("Unexpected character '&'", st.line, startCol)]
          [] c = "|" ->
                IF peek(src, st) = "|"
                THEN addToken(advance(src, st), "OR_OR", Undef, startCol)
                ELSE [st EXCEPT !.err = LexError("Unexpected character '|'", st.line, startCol)]
          [] c = "/" ->
                IF peek(src, st) = "/" THEN skipLine(src, st)
                ELSE IF peek(src, st) = "*"
                THEN LET r == skipBlock(src, advance(src, st))
                     IN  IF r.found THEN r.st
                         ELSE [r.st EXCEPT !.err =
                                  LexError("Unterminated multi-line comment",
                                           r.st.line, startCol)]
                ELSE addToken(st, "SLASH", Undef, startCol)
          [] c = "\"" ->
                LET r == scanString(src, st, "")
                IN  IF r.err.kind # "none" THEN r
                    ELSE IF isAtEnd(src, r) /\ peek(src, r) # "\""
                    THEN [r EXCEPT !.err = LexError("Unterminated string literal",
                                                    r.line, startCol)]
                    ELSE addToken(advance(src, r), "STRING", Str(r.text), startCol)
          [] c \in {"\n", " ", "\t", "\r"} -> st
          [] isDigit(c) ->
                LET whole == scanDigits(src, st, <<c>>)
                IN  IF peek(src, whole) = "." /\ isDigit(peekNext(src, whole))
                    THEN LET frac == scanDigits(src, advance(src, whole), <<>>)
                         IN  addToken(frac, "NUMBER",
                                      Float(DigitsValue(whole.text), frac.text), startCol)
                    ELSE addToken(whole, "NUMBER", Num(DigitsValue(whole.text)), startCol)
          [] isAlpha(c) ->
                LET r == scanIdentifier(src, st, c)
                IN  addToken(r, IF r.text \in DOMAIN keywords THEN keywords[r.text]
                                ELSE "IDENTIFIER",
                             Str(r.text), startCol)
          [] OTHER -> [st EXCEPT !.err = LexError("Unexpected character", st.line, startCol)]

RECURSIVE scanTokens(_, _)
scanTokens(src, st) ==
    IF st.err.kind # "none" \/ isAtEnd(src, st) THEN st
    ELSE scanTokens(src, scanToken(src, st))

\* tokenize(source): the tokens with the EOF token after them, or the error thrown.
tokenize(source) ==
    LET Scanned(st) ==
            IF st.err.kind # "none" THEN [tokens |-> <<>>, err |-> st.err]
            ELSE [tokens |-> addToken(st, "EOF", Undef, st.column).tokens, err |-> NoError]
    IN  Scanned(scanTokens(source, [i |-> 0, line |-> 1, column |-> 1, tokens |-> <<>>,
                                    text |-> "", err |-> NoError]))

-----------------------------------------------------------------------------
(* The parser.  currentTokenIndex is the 0-based i; a parsing method       *)
(* returns the node it built with the index it left, or the error thrown.  *)

Parsed(node, i) == [node |-> node, i |-> i, err |-> NoError]

ParserError(message, token) ==
    [node |-> Undef, i |-> 0,
     err |-> [kind |-> "ParserError", message |-> message,
              line |-> token.line, column |-> token.column]]

peekToken(tokens, i) == tokens[i + 1]
previous(tokens, i) == tokens[i]
atEOF(tokens, i) == peekToken(tokens, i).type = "EOF"
check(tokens, i, type) == ~atEOF(tokens, i) /\ peekToken(tokens, i).type = type
\* advance() moves unless at the end; the token it returns is previous().
advanceToken(tokens, i) == IF ~atEOF(tokens, i) THEN i + 1 ELSE i
\* match(...types): true, with the token consumed, when the next is of one of them
match(tokens, i, types) == \E type \in types : check(tokens, i, type)
currentLoc(tokens, i) ==
    [line |-> peekToken(tokens, i).line, column |-> peekToken(tokens, i).column]

\* consume(type, message): node is the token consumed
consume(tokens, i, expectedType, errorMessage) ==
    IF check(tokens, i, expectedType)
    THEN Parsed(previous(tokens, advanceToken(tokens, i)), advanceToken(tokens, i))
    ELSE ParserError(errorMessage, peekToken(tokens, i))

\* A throw ends every method on the way up to the caller of parse(): what
\* follows a call runs only on a result that carries no error.
Then(r, K(_)) == IF r.err.kind # "none" THEN r ELSE K(r)

parseIdentifier(tokens, i) ==
    Then(consume(tokens, i, "IDENTIFIER", "Expected an identifier."),
         LAMBDA token :
             Parsed([type |-> "Identifier", value |-> token.node.value,
                     loc |-> currentLoc(tokens, token.i)], token.i))

parseLiteral(tokens, i) ==
    LET j == advanceToken(tokens, i)
        token == previous(tokens, j)
        Literal(value) ==
            Parsed([type |-> "Literal", value |-> value,
                    loc |-> [line |-> token.line, column |-> token.column]], j)
    IN  CASE token.type = "NUMBER" -> Literal(token.value)
          [] token.type = "STRING" -> Literal(token.value)
          [] token.type = "TRUE" -> Literal(Bool(TRUE))
          [] token.type = "FALSE" -> Literal(Bool(FALSE))
          [] token.type = "NULL" -> Literal(Null)
          [] OTHER -> ParserError("Expected a literal.", token)

\* A ladder on which the additive operators are matched below the
\* multiplicative ones, that is, bind tighter.
LevelOperatorsSwapped ==
    << {"OR_OR"}, {"AND_AND"}, {"EQUAL_EQUAL", "BANG_EQUAL"},
       {"LESS", "LESS_EQUAL", "GREATER", "GREATER_EQUAL"},
       {"STAR", "SLASH", "PERCENT"}, {"PLUS", "MINUS"} >>

\* The binary operators by precedence level, lowest first.
LevelOperators ==
    << {"OR_OR"}, {"AND_AND"}, {"EQUAL_EQUAL", "BANG_EQUAL"},
       {"LESS", "LESS_EQUAL", "GREATER", "GREATER_EQUAL"},
       {"PLUS", "MINUS"}, {"STAR", "SLASH", "PERCENT"} >>

RECURSIVE parseExpression(_, _), parsePrimary(_, _), parseCall(_, _, _),
          finishCall(_, _, _), parseExpressionList(_, _, _), parseUnary(_, _),
          parseBinary(_, _, _), parseBinaryRest(_, _, _, _), parseAssignment(_, _),
          parseTernary(_, _), parseArrayLiteral(_, _), parseObjectLiteral(_, _),
          parseProperties(_, _, _)

\* do { list.push(parseExpression()) } while (match(COMMA)); node is the list
parseExpressionList(tokens, i, list) ==
    Then(parseExpression(tokens, i),
         LAMBDA e :
             IF match(tokens, e.i, {"COMMA"})
             THEN parseExpressionList(tokens, e.i + 1, Append(list, e.node))
             ELSE Parsed(Append(list, e.node), e.i))

parseArrayLiteral(tokens, i) ==
    Then(IF ~check(tokens, i, "RIGHT_BRACKET")
         THEN parseExpressionList(tokens, i, <<>>)
         ELSE Parsed(<<>>, i),
         LAMBDA elements :
    Then(consume(tokens, elements.i, "RIGHT_BRACKET",
                 "Expected ']' after array elements."),
         LAMBDA close :
             Parsed([type |-> "ArrayLiteral", elements |-> elements.node,
                     loc |-> currentLoc(tokens, close.i)], close.i)))

parseProperties(tokens, i, properties) ==
    IF ~check(tokens, i, "RIGHT_BRACE") /\ ~atEOF(tokens, i)
    THEN Then(parseIdentifier(tokens, i),
              LAMBDA key :
         Then(consume(tokens, key.i, "COLON", "Expected ':' after key in object."),
              LAMBDA colon :
         Then(parseExpression(tokens, colon.i),
              LAMBDA value :
                  IF ~match(tokens, value.i, {"COMMA"})
                  THEN Parsed(Append(properties,
                                     [key |-> key.node, value |-> value.node]),
                              value.i)
                  ELSE parseProperties(tokens, value.i + 1,
                                       Append(properties,
                                              [key |-> key.node, value |-> value.node])))))
    ELSE Parsed(properties, i)

parseObjectLiteral(tokens, i) ==
    Then(parseProperties(tokens, i, <<>>),
         LAMBDA properties :
    Then(consume(tokens, properties.i, "RIGHT_BRACE",
                 "Expected '}' after object literal."),
         LAMBDA close :
             Parsed([type |-> "ObjectLiteral", properties |-> properties.node,
                     loc |-> currentLoc(tokens, close.i)], close.i)))

\* match() consumes the token it recognises, and parseLiteral and
\* parseIdentifier then take the token after it.
parsePrimary(tokens, i) ==
    IF match(tokens, i, {"NUMBER", "STRING", "TRUE", "FALSE", "NULL"})
    THEN parseLiteral(tokens, i + 1)
    ELSE IF match(tokens, i, {"IDENTIFIER"}) THEN parseIdentifier(tokens, i + 1)
    ELSE IF match(tokens, i, {"LEFT_BRACKET"}) THEN parseArrayLiteral(tokens, i + 1)
    ELSE IF match(tokens, i, {"LEFT_BRACE"}) THEN parseObjectLiteral(tokens, i + 1)
    ELSE IF match(tokens, i, {"LEFT_PAREN"})
    THEN Then(parseExpression(tokens, i + 1),
              LAMBDA expr :
         Then(consume(tokens, expr.i, "RIGHT_PAREN", "Expected ')' after expression."),
              LAMBDA close : Parsed(expr.node, close.i)))
    ELSE ParserError("Expected an expression.", peekToken(tokens, i))

finishCall(tokens, i, callee) ==
    Then(IF ~check(tokens, i, "RIGHT_PAREN")
         THEN parseExpressionList(tokens, i, <<>>)
         ELSE Parsed(<<>>, i),
         LAMBDA args :
    Then(consume(tokens, args.i, "RIGHT_PAREN", "Expected ')' after arguments."),
         LAMBDA close :
             Parsed([type |-> "CallExpression", callee |-> callee, args |-> args.node,
                     loc |-> currentLoc(tokens, close.i)], close.i)))

parseCall(tokens, i, expr) ==
    IF match(tokens, i, {"LEFT_PAREN"})
    THEN Then(finishCall(tokens, i + 1, expr),
              LAMBDA call : parseCall(tokens, call.i, call.node))
    ELSE IF match(tokens, i, {"DOT"})
    THEN Then(parseIdentifier(tokens, i + 1),
              LAMBDA property :
                  parseCall(tokens, property.i,
                            [type |-> "MemberExpression", object |-> expr,
                             property |-> property.node, computed |-> FALSE,
                             loc |-> currentLoc(tokens, property.i)]))
    ELSE IF match(tokens, i, {"LEFT_BRACKET"})
    THEN Then(parseExpression(tokens, i + 1),
              LAMBDA property :
         Then(consume(tokens, property.i, "RIGHT_BRACKET",
                      "Expected ']' after computed member access."),
              LAMBDA close :
                  parseCall(tokens, close.i,
                            [type |-> "MemberExpression", object |-> expr,
                             property |-> property.node, computed |-> TRUE,
                             loc |-> currentLoc(tokens, close.i)])))
    ELSE Parsed(expr, i)

parseUnary(tokens, i) ==
    IF match(tokens, i, {"BANG", "MINUS"})
    THEN Then(parseUnary(tokens, i + 1),
              LAMBDA argument :
                  Parsed([type |-> "UnaryExpression",
                          operator |-> previous(tokens, i + 1).value,
                          argument |-> argument.node,
                          loc |-> currentLoc(tokens, argument.i)], argument.i))
    ELSE Then(parsePrimary(tokens, i),
              LAMBDA primary : parseCall(tokens, primary.i, primary.node))

\* The six left-associative levels share one shape: level 1 is
\* parseLogicalOr, then parseLogicalAnd, parseEquality, parseComparison,
\* parseTerm and, as level 6, parseFactor, whose operands are parseUnary.
parseBinary(level, tokens, i) ==
    IF level > Len(LevelOperators) THEN parseUnary(tokens, i)
    ELSE Then(parseBinary(level + 1, tokens, i),
              LAMBDA expr : parseBinaryRest(level, tokens, expr.i, expr.node))

parseBinaryRest(level, tokens, i, expr) ==
    IF match(tokens, i, LevelOperators[level])
    THEN Then(parseBinary(level + 1, tokens, i + 1),
              LAMBDA right :
                  parseBinaryRest(level, tokens, right.i,
                                  [type |-> "BinaryExpression",
                                   operator |-> previous(tokens, i + 1).value,
                                   left |-> expr, right |-> right.node,
                                   loc |-> currentLoc(tokens, right.i)]))
    ELSE Parsed(expr, i)

parseLogicalOr(tokens, i) == parseBinary(1, tokens, i)

parseAssignment(tokens, i) ==
    Then(parseLogicalOr(tokens, i),
         LAMBDA expr :
             IF match(tokens, expr.i, {"EQUAL"})
             THEN Then(parseAssignment(tokens, expr.i + 1),
                       LAMBDA value :
                           IF expr.node.type \in {"Identifier", "MemberExpression"}
                           THEN Parsed([type |-> "AssignmentExpression",
                                        left |-> expr.node, right |-> value.node,
                                        loc |-> currentLoc(tokens, value.i)], value.i)
                           ELSE ParserError("Invalid assignment target.",
                                            peekToken(tokens, value.i)))
             ELSE expr)

parseTernary(tokens, i) ==
    Then(parseAssignment(tokens, i),
         LAMBDA expr :
             IF match(tokens, expr.i, {"QUESTION"})
             THEN Then(parseExpression(tokens, expr.i + 1),
                       LAMBDA consequent :
                  Then(consume(tokens, consequent.i, "COLON",
                               "Expected ':' in ternary expression."),
                       LAMBDA colon :
                  Then(parseExpression(tokens, colon.i),
                       LAMBDA alternate :
                           Parsed([type |-> "TernaryExpression", test |-> expr.node,
                                   consequent |-> consequent.node,
                                   alternate |-> alternate.node,
                                   loc |-> currentLoc(tokens, alternate.i)],
                                  alternate.i))))
             ELSE expr)

parseExpression(tokens, i) == parseTernary(tokens, i)

RECURSIVE parseStatement(_, _), parseStatements(_, _, _), parseBlock(_, _),
          parseParameters(_, _, _), parseFunctionDeclaration(_, _),
          parseIfStatement(_, _), parseWhileStatement(_, _)

\* while (!check(RIGHT_BRACE) && !isAtEnd()) body.push(parseStatement());
parseStatements(tokens, i, body) ==
    IF ~check(tokens, i, "RIGHT_BRACE") /\ ~atEOF(tokens, i)
    THEN Then(parseStatement(tokens, i),
              LAMBDA stmt : parseStatements(tokens, stmt.i, Append(body, stmt.node)))
    ELSE Parsed(body, i)

parseBlock(tokens, i) ==
    Then(consume(tokens, i, "LEFT_BRACE", "Expected '{' to start block."),
         LAMBDA open :
    Then(parseStatements(tokens, open.i, <<>>),
         LAMBDA body :
    Then(consume(tokens, body.i, "RIGHT_BRACE", "Expected '}' after block."),
         LAMBDA close :
             Parsed([type |-> "BlockStatement", body |-> body.node,
                     loc |-> currentLoc(tokens, close.i)], close.i))))

\* do { params.push(parseIdentifier()) } while (match(COMMA));
parseParameters(tokens, i, params) ==
    Then(parseIdentifier(tokens, i),
         LAMBDA param :
             IF match(tokens, param.i, {"COMMA"})
             THEN parseParameters(tokens, param.i + 1, Append(params, param.node))
             ELSE Parsed(Append(params, param.node), param.i))

parseFunctionDeclaration(tokens, i) ==
    Then(parseIdentifier(tokens, i),
         LAMBDA name :
    Then(consume(tokens, name.i, "LEFT_PAREN", "Expected '(' after function name."),
         LAMBDA open :
    Then(IF ~check(tokens, open.i, "RIGHT_PAREN")
         THEN parseParameters(tokens, open.i, <<>>)
         ELSE Parsed(<<>>, open.i),
         LAMBDA params :
    Then(consume(tokens, params.i, "RIGHT_PAREN", "Expected ')' after parameters."),
         LAMBDA close :
    Then(parseBlock(tokens, close.i),
         LAMBDA body :
             Parsed([type |-> "FunctionDeclaration", name |-> name.node,
                     params |-> params.node, body |-> body.node,
                     loc |-> currentLoc(tokens, body.i)], body.i))))))

parseVariableDeclaration(tokens, i) ==
    Then(parseIdentifier(tokens, i),
         LAMBDA name :
    Then(IF match(tokens, name.i, {"EQUAL"})
         THEN parseExpression(tokens, name.i + 1)
         ELSE Parsed(Null, name.i),
         LAMBDA initializer :
    Then(consume(tokens, initializer.i, "SEMICOLON",
                 "Expected ';' after variable declaration."),
         LAMBDA semi :
             Parsed([type |-> "VariableDeclaration", name |-> name.node,
                     initializer |-> initializer.node,
                     loc |-> currentLoc(tokens, semi.i)], semi.i))))

parseReturnStatement(tokens, i) ==
    Then(IF check(tokens, i, "SEMICOLON") THEN Parsed(Null, i)
         ELSE parseExpression(tokens, i),
         LAMBDA argument :
    Then(consume(tokens, argument.i, "SEMICOLON", "Expected ';' after return."),
         LAMBDA semi :
             Parsed([type |-> "ReturnStatement", argument |-> argument.node,
                     loc |-> currentLoc(tokens, semi.i)], semi.i)))

parseIfStatement(tokens, i) ==
    Then(consume(tokens, i, "LEFT_PAREN", "Expected '(' after 'if'."),
         LAMBDA open :
    Then(parseExpression(tokens, open.i),
         LAMBDA test :
    Then(consume(tokens, test.i, "RIGHT_PAREN", "Expected ')' after if condition."),
         LAMBDA close :
    Then(parseBlock(tokens, close.i),
         LAMBDA consequent :
    Then(IF match(tokens, consequent.i, {"ELSE"})
         THEN parseBlock(tokens, consequent.i + 1)
         ELSE Parsed(Null, consequent.i),
         LAMBDA alternate :
             Parsed([type |-> "IfStatement", test |-> test.node,
                     consequent |-> consequent.node, alternate |-> alternate.node,
                     loc |-> currentLoc(tokens, alternate.i)], alternate.i))))))

parseWhileStatement(tokens, i) ==
    Then(consume(tokens, i, "LEFT_PAREN", "Expected '(' after 'while'."),
         LAMBDA open :
    Then(parseExpression(tokens, open.i),
         LAMBDA test :
    Then(consume(tokens, test.i, "RIGHT_PAREN", "Expected ')' after condition."),
         LAMBDA close :
    Then(parseBlock(tokens, close.i),
         LAMBDA body :
             Parsed([type |-> "WhileStatement", test |-> test.node, body |-> body.node,
                     loc |-> currentLoc(tokens, body.i)], body.i)))))

parseExpressionStatement(tokens, i) ==
    Then(parseExpression(tokens, i),
         LAMBDA expression :
    Then(consume(tokens, expression.i, "SEMICOLON", "Expected ';' after expression."),
         LAMBDA semi :
             Parsed([type |-> "ExpressionStatement", expression |-> expression.node,
                     loc |-> currentLoc(tokens, semi.i)], semi.i)))

parseStatement(tokens, i) ==
    IF check(tokens, i, "FUN") THEN parseFunctionDeclaration(tokens, advanceToken(tokens, i))
    ELSE IF match(tokens, i, {"LET"}) THEN parseVariableDeclaration(tokens, i + 1)
    ELSE IF match(tokens, i, {"RETURN"}) THEN parseReturnStatement(tokens, i + 1)
    ELSE IF match(tokens, i, {"IF"}) THEN parseIfStatement(tokens, i + 1)
    ELSE IF match(tokens, i, {"WHILE"}) THEN parseWhileStatement(tokens, i + 1)
    ELSE parseExpressionStatement(tokens, i)

\* while (!isAtEnd()) body.push(parseStatement());
RECURSIVE parseProgram(_, _, _)
parseProgram(tokens, i, body) ==
    IF ~atEOF(tokens, i)
    THEN Then(parseStatement(tokens, i),
              LAMBDA stmt : parseProgram(tokens, stmt.i, Append(body, stmt.node)))
    ELSE Parsed([type |-> "Program", body |-> body, loc |-> currentLoc(tokens, i)], i)

\* new Parser(tokens).parse()
parse(tokens) == parseProgram(tokens, 0, <<>>)

-----------------------------------------------------------------------------
(* The code generator.  A generator is the record of the fields of a       *)
(* CodeGenerator with the error it has thrown, if any; a visitor maps the  *)
(* generator before it to the generator after it.  The scope chain is the  *)
(* sequence of the scopes from the outermost to the current one, and the   *)
(* empty chain is the null scope.                                          *)

EmptyMap == [key \in {} |-> Undef]
Put(map, key, value) == (key :> value) @@ map

\* node[name] in JavaScript: undefined when the object has no such property
Field(node, name) == IF name \in DOMAIN node THEN node[name] ELSE Undef
Missing(node, name) == name \notin DOMAIN node
\* the truthiness of a node-valued field: null and undefined are falsy
Present(node) == node # Null /\ node # Undef

CodegenError(g, kind) == [g EXCEPT !.err = [kind |-> kind]]
\* reading a property of undefined or null, or iterating undefined
TypeError(g) == CodegenError(g, "TypeError")

LocalScope(initialOffset) == [variables |-> EmptyMap, nextLocalOffset |-> initialOffset]

\* currentScope.define(name); the offset it returns is the old nextLocalOffset
define(g, name) ==
    LET scope == g.currentScope[Len(g.currentScope)]
    IN  IF name \in DOMAIN scope.variables
        THEN CodegenError(g, "Redeclaration in the same scope")
        ELSE [g EXCEPT !.currentScope[Len(g.currentScope)] =
                 [variables |-> Put(scope.variables, name, scope.nextLocalOffset),
                  nextLocalOffset |-> scope.nextLocalOffset + 1]]

\* scope.resolve(name) from the scope at depth d outwards; Undef when not found
RECURSIVE resolve(_, _, _)
resolve(chain, d, name) ==
    IF d = 0 THEN Undef
    ELSE IF name \in DOMAIN chain[d].variables
    THEN [offset |-> chain[d].variables[name], isLocal |-> TRUE]
    ELSE resolve(chain, d - 1, name)

\* An addConstant without the findIndex: every value is pushed.
addConstantAlways(g, value) ==
    [g |-> [g EXCEPT !.constantPool = Append(@, value)], index |-> Len(g.constantPool)]

\* findIndex compares the JSON texts, which are equal for equal values.
addConstant(g, value) ==
    IF \E index \in 1..Len(g.constantPool) : g.constantPool[index] = value
    THEN [g |-> g,
          index |-> (CHOOSE index \in 1..Len(g.constantPool) :
                        /\ g.constantPool[index] = value
                        /\ \A j \in 1..(index - 1) : g.constantPool[j] # value) - 1]
    ELSE [g |-> [g EXCEPT !.constantPool = Append(@, value)],
          index |-> Len(g.constantPool)]

emit(g, bytes) == [g EXCEPT !.bytecode = @ \o bytes]
\* patchJump(at) with the default target, the current length
patchJump(g, at) == [g EXCEPT !.bytecode[at + 1] = Len(g.bytecode)]
\* this.bytecode.at(-1)
LastByte(g) == IF g.bytecode = <<>> THEN undefined ELSE g.bytecode[Len(g.bytecode)]

\* The case labels of visit() in their order in the switch.
VisitCases ==
    << "Program", "FunctionDeclaration", "VariableDeclaration", "ReturnStatement",
       "IfStatement", "WhileStatement", "BlockStatement", "ExpressionStatement",
       "BinaryExpression", "UnaryExpression", "CallExpression", "Identifier",
       "Literal", "AssignmentExpression", "TernaryExpression", "MemberExpression" >>

\* The operator table of visitBinaryExpression.
BinaryOpcodes ==
    [operator \in {"+", "-", "*", "/", "%", "==", "!=", ">", ">=", "<", "<=", "&&", "||"} |->
        CASE operator = "+" -> Op("ADD") [] operator = "-" -> Op("SUB")
          [] operator = "*" -> Op("MUL") [] operator = "/" -> Op("DIV")
          [] operator = "%" -> Op("MOD") [] operator = "==" -> Op("EQ")
          [] operator = "!=" -> Op("NEQ") [] operator = ">" -> Op("GT")
          [] operator = ">=" -> Op("GTE") [] operator = "<" -> Op("LT")
          [] operator = "<=" -> Op("LTE") [] operator = "&&" -> Op("AND")
          [] operator = "||" -> Op("OR")]

RECURSIVE visit(_, _), visitFrom(_, _, _), visitAll(_, _), visitProgram(_, _),
          visitFunctionDeclaration(_, _), visitVariableDeclaration(_, _),
          visitReturnStatement(_, _), visitIfStatement(_, _), visitWhileStatement(_, _),
          visitBlockStatement(_, _), visitExpressionStatement(_, _),
          visitBinaryExpression(_, _), visitUnaryExpression(_, _),
          visitCallExpression(_, _), visitAssignmentExpression(_, _),
          visitTernaryExpression(_, _)

\* nodes.forEach(n => this.visit(n)), ended by the first throw
visitAll(nodes, g) ==
    IF nodes = <<>> \/ g.err.kind # "none" THEN g
    ELSE visitAll(Tail(nodes), visit(Head(nodes), g))

\* The first pass of visitProgram: every top-level function is registered.
RECURSIVE registerFunctions(_, _)
registerFunctions(body, functions) ==
    IF body = <<>> THEN functions
    ELSE registerFunctions(Tail(body),
            IF Head(body).type = "FunctionDeclaration"
            THEN Put(functions, Head(body).name.value,
                     [address |-> -1, arity |-> Len(Head(body).params), numLocals |-> 0])
            ELSE functions)

visitProgram(node, g) ==
    IF Missing(node, "body") THEN TypeError(g)
    ELSE LET g1 == [g EXCEPT !.globalFunctions = registerFunctions(node.body, @)]
             g2 == visitAll(node.body, g1)
         IN  IF g2.err.kind # "none" THEN g2
             ELSE IF g2.bytecode = <<>> \/ LastByte(g2) \notin {OpCode.RET, OpCode.HALT}
             THEN emit(g2, <<OpCode.HALT>>)
             ELSE g2

\* node.params.forEach(p => this.currentScope.define(p.value))
RECURSIVE defineAll(_, _)
defineAll(params, g) ==
    IF params = <<>> \/ g.err.kind # "none" THEN g
    ELSE defineAll(Tail(params), define(g, Field(Head(params), "value")))

visitFunctionDeclaration(node, g) ==
    IF Missing(node, "name") THEN TypeError(g)
    ELSE LET name == Field(node.name, "value")
         IN  IF name \notin DOMAIN g.globalFunctions THEN TypeError(g)
             ELSE IF Missing(node, "params") THEN TypeError(g)
             ELSE LET g1 == [g EXCEPT !.globalFunctions[name].address = Len(g.bytecode),
                                      !.currentScope = <<LocalScope(0)>>]
                      g2 == defineAll(node.params, g1)
                      g3 == IF g2.err.kind # "none" THEN g2
                            ELSE visit(Field(node, "body"), g2)
                      g4 == IF LastByte(g3) # Op("RET")
                            THEN emit(g3, <<Op("PUSH_NULL"), OpCode.RET>>)
                            ELSE g3
                  IN  IF g3.err.kind # "none" THEN g3
                      ELSE IF g4.currentScope = <<>> THEN TypeError(g4)
                      ELSE [g4 EXCEPT !.globalFunctions[name].numLocals =
                                          g4.currentScope[Len(g4.currentScope)].nextLocalOffset,
                                      !.currentScope = <<>>]

visitVariableDeclaration(node, g) ==
    IF g.currentScope = <<>> \/ Missing(node, "name") THEN TypeError(g)
    ELSE LET offset == g.currentScope[Len(g.currentScope)].nextLocalOffset
             g1 == define(g, Field(node.name, "value"))
             g2 == IF Present(Field(node, "initializer"))
                   THEN visit(node.initializer, g1)
                   ELSE emit(g1, <<Op("PUSH_NULL")>>)
         IN  IF g1.err.kind # "none" THEN g1
             ELSE IF g2.err.kind # "none" THEN g2
             ELSE emit(g2, <<Op("STORE_LOCAL"), offset>>)

visitReturnStatement(node, g) ==
    LET g1 == IF Present(Field(node, "argument")) THEN visit(node.argument, g)
              ELSE emit(g, <<Op("PUSH_NULL")>>)
    IN  IF g1.err.kind # "none" THEN g1 ELSE emit(g1, <<OpCode.RET>>)

visitIfStatement(node, g) ==
    LET g1 == visit(Field(node, "test"), g)
        jzIndex == Len(g1.bytecode) + 1
        g2 == visit(Field(node, "consequent"), emit(g1, <<OpCode.JZ, 0>>))
    IN  IF g1.err.kind # "none" THEN g1
        ELSE IF g2.err.kind # "none" THEN g2
        ELSE IF Present(Field(node, "alternate"))
        THEN LET jmpIndex == Len(g2.bytecode) + 1
                 g3 == visit(node.alternate,
                             patchJump(emit(g2, <<OpCode.JMP, 0>>), jzIndex))
             IN  IF g3.err.kind # "none" THEN g3 ELSE patchJump(g3, jmpIndex)
        ELSE patchJump(g2, jzIndex)

visitWhileStatement(node, g) ==
    LET loopStart == Len(g.bytecode)
        g1 == visit(Field(node, "test"), g)
        exitJump == Len(g1.bytecode) + 1
        g2 == visit(Field(node, "body"), emit(g1, <<OpCode.JZ, 0>>))
    IN  IF g1.err.kind # "none" THEN g1
        ELSE IF g2.err.kind # "none" THEN g2
        ELSE patchJump(emit(g2, <<OpCode.JMP, loopStart>>), exitJump)

\* A child scope that starts at the offset which no variable of the scope
\* it is entered from has taken.
ChildScopeAtZero(previousScope) == LocalScope(0)

\* new LocalScope(previous, previous?.nextLocalOffset ?? 0)
ChildScope(previousScope) ==
    LocalScope(IF previousScope = <<>> THEN 0
               ELSE previousScope[Len(previousScope)].nextLocalOffset)

visitBlockStatement(node, g) ==
    LET previousScope == g.currentScope
        g1 == [g EXCEPT !.currentScope = Append(previousScope, ChildScope(previousScope))]
        g2 == visitAll(node.body, g1)
    IN  IF Missing(node, "body") THEN TypeError(g1)
        ELSE IF g2.err.kind # "none" THEN g2
        ELSE [g2 EXCEPT !.currentScope = previousScope]

visitExpressionStatement(node, g) ==
    LET g1 == visit(Field(node, "expression"), g)
    IN  IF g1.err.kind # "none" THEN g1 ELSE emit(g1, <<OpCode.POP>>)

visitBinaryExpression(node, g) ==
    LET g1 == visit(Field(node, "left"), g)
        g2 == visit(Field(node, "right"), g1)
        operator == Field(node, "operator")
        opcode == IF operator.t = "string" /\ operator.v \in DOMAIN BinaryOpcodes
                  THEN BinaryOpcodes[operator.v] ELSE undefined
    IN  IF g1.err.kind # "none" THEN g1
        ELSE IF g2.err.kind # "none" THEN g2
        ELSE IF opcode = undefined THEN CodegenError(g2, "Unknown binary operator")
        ELSE emit(g2, <<opcode>>)

\* op is null for an operator that is neither - nor !, and op == null holds
\* of undefined as well.
visitUnaryExpression(node, g) ==
    LET g1 == visit(Field(node, "argument"), g)
        operator == Field(node, "operator")
        isNull == operator \notin {Str("-"), Str("!")}
        op == IF operator = Str("-") THEN Op("NEG") ELSE Op("NOT")
    IN  IF g1.err.kind # "none" THEN g1
        ELSE IF isNull \/ op = undefined THEN CodegenError(g1, "Unknown unary operator")
        ELSE emit(g1, <<op>>)

visitCallExpression(node, g) ==
    IF Missing(node, "callee") THEN TypeError(g)
    ELSE IF Field(node.callee, "type") # "Identifier" THEN CodegenError(g, "Invalid callee")
    ELSE IF Missing(node, "args") THEN TypeError(g)
    ELSE LET name == Field(node.callee, "value")
             g1 == visitAll(node.args, g)
         IN  IF g1.err.kind # "none" THEN g1
             ELSE IF name = Str("print")
             THEN emit(g1, <<OpCode.PRINT, Op("PUSH_NULL")>>)
             ELSE IF name \notin DOMAIN g1.globalFunctions
             THEN CodegenError(g1, "Undefined function")
             ELSE LET fn == g1.globalFunctions[name]
                  IN  IF Len(node.args) # fn.arity THEN CodegenError(g1, "Wrong arg count")
                      ELSE emit(g1, <<OpCode.CALL, fn.address, fn.arity>>)

visitIdentifier(node, g) ==
    IF g.currentScope = <<>> THEN TypeError(g)
    ELSE LET resolved == resolve(g.currentScope, Len(g.currentScope), Field(node, "value"))
         IN  IF resolved = Undef THEN CodegenError(g, "Undefined variable")
             ELSE emit(g, <<Op("LOAD_LOCAL"), resolved.offset>>)

visitLiteral(node, g) ==
    LET val == Field(node, "value")
    IN  IF val.t = "number" /\ "fraction" \notin DOMAIN val /\ val.v >= -128 /\ val.v <= 127
        THEN emit(g, <<Op("PUSH_INT"), val.v>>)
        ELSE IF val.t = "boolean"
        THEN emit(g, <<IF val.v THEN Op("PUSH_TRUE") ELSE Op("PUSH_FALSE")>>)
        ELSE IF val = Null THEN emit(g, <<Op("PUSH_NULL")>>)
        ELSE LET added == addConstant(g, val)
             IN  emit(added.g, <<Op("PUSH_CONST"), added.index>>)

visitAssignmentExpression(node, g) ==
    IF Missing(node, "left") THEN TypeError(g)
    ELSE IF Field(node.left, "type") # "Identifier"
    THEN CodegenError(g, "Invalid assignment target.")
    ELSE LET name == Field(node.left, "value")
             g1 == visit(Field(node, "right"), g)
         IN  IF g1.err.kind # "none" THEN g1
             ELSE IF g1.currentScope = <<>> THEN TypeError(g1)
             ELSE LET resolved == resolve(g1.currentScope, Len(g1.currentScope), name)
                  IN  IF resolved = Undef THEN CodegenError(g1, "Undefined variable")
                      ELSE emit(g1, <<Op("STORE_LOCAL"), resolved.offset>>)

visitTernaryExpression(node, g) ==
    LET g1 == visit(Field(node, "test"), g)
        falseJump == Len(g1.bytecode) + 1
        g2 == visit(Field(node, "consequent"), emit(g1, <<OpCode.JZ, 0>>))
        endJump == Len(g2.bytecode) + 1
        g3 == visit(Field(node, "alternate"),
                    patchJump(emit(g2, <<OpCode.JMP, 0>>), falseJump))
    IN  IF g1.err.kind # "none" THEN g1
        ELSE IF g2.err.kind # "none" THEN g2
        ELSE IF g3.err.kind # "none" THEN g3
        ELSE patchJump(g3, endJump)

visitMemberExpression(node, g) == CodegenError(g, "MemberExpression not implemented yet")

\* The statement list of visit()'s case k.
visitCase(k, node, g) ==
    CASE k = 1 -> visitProgram(node, g)
      [] k = 2 -> visitFunctionDeclaration(node, g)
      [] k = 3 -> visitVariableDeclaration(node, g)
      [] k = 4 -> visitReturnStatement(node, g)
      [] k = 5 -> visitIfStatement(node, g)
      [] k = 6 -> visitWhileStatement(node, g)
      [] k = 7 -> visitBlockStatement(node, g)
      [] k = 8 -> visitExpressionStatement(node, g)
      [] k = 9 -> visitBinaryExpression(node, g)
      [] k = 10 -> visitUnaryExpression(node, g)
      [] k = 11 -> visitCallExpression(node, g)
      [] k = 12 -> visitIdentifier(node, g)
      [] k = 13 -> visitLiteral(node, g)
      [] k = 14 -> visitAssignmentExpression(node, g)
      [] k = 15 -> visitTernaryExpression(node, g)
      [] k = 16 -> visitMemberExpression(node, g)

\* No case of the switch ends in a break: from the case selected, control
\* runs through every later case and reaches the throw of the default.
visitFrom(k, node, g) ==
    IF g.err.kind # "none" THEN g
    ELSE IF k > Len(VisitCases) THEN CodegenError(g, "Unhandled node type")
    ELSE visitFrom(k + 1, node, visitCase(k, node, g))

visit(node, g) ==
    IF node = Undef \/ node = Null THEN TypeError(g)
    ELSE IF \E k \in 1..Len(VisitCases) : VisitCases[k] = node.type
    THEN visitFrom(CHOOSE k \in 1..Len(VisitCases) : VisitCases[k] = node.type, node, g)
    ELSE CodegenError(g, "Unhandled node type")

\* new CodeGenerator()
CodeGenerator ==
    [bytecode |-> <<>>, constantPool |-> <<>>, globalFunctions |-> EmptyMap,
     currentScope |-> <<>>, err |-> NoError]

\* generate(ast) on the generator g
generate(g, ast) ==
    visit(ast, [bytecode |-> <<>>, constantPool |-> <<>>, globalFunctions |-> EmptyMap,
                currentScope |-> <<LocalScope(0)>>, err |-> NoError])

\* compile(source): what it returns is output, and err is what it threw;
\* generator is the generator as the call left it.
Compiled(generator, err) ==
    [output |-> IF err.kind = "none"
                THEN [bytecode |-> generator.bytecode,
                      constantPool |-> generator.constantPool]
                ELSE Undef,
     err |-> err, generator |-> generator]

\* A compile that keeps one generator for all its calls, whose generate()
\* clears the bytecode and the scope but neither the constant pool nor the
\* function table.
compileReusing(source) ==
    LET kept == IF compilations = <<>> THEN CodeGenerator
                ELSE compilations[Len(compilations)].result.generator
        Generated(generator) == Compiled(generator, generator.err)
        Try(r, K(_)) == IF r.err.kind # "none" THEN Compiled(kept, r.err) ELSE K(r)
    IN  Try(tokenize(source),
            LAMBDA lexed :
        Try(parse(lexed.tokens),
            LAMBDA ast :
                Generated(visit(ast.node, [kept EXCEPT !.bytecode = <<>>,
                                                       !.currentScope = <<LocalScope(0)>>,
                                                       !.err = NoError]))))

compile(source) ==
    LET Generated(generator) == Compiled(generator, generator.err)
        Try(r, K(_)) == IF r.err.kind # "none" THEN Compiled(CodeGenerator, r.err) ELSE K(r)
    IN  Try(tokenize(source),
            LAMBDA lexed :
        Try(parse(lexed.tokens),
            LAMBDA ast : Generated(generate(CodeGenerator, ast.node))))

-----------------------------------------------------------------------------
(* The sources that the model compiles.  Each is the sequence of the       *)
(* characters of the text in the comment above it.                         *)

\* let x = 1; while (x < 3) { x = x + 1; } return x;
LoopSource ==
    <<"l", "e", "t", " ", "x", " ", "=", " ", "1", ";", " ", "w", "h", "i",
      "l", "e", " ", "(", "x", " ", "<", " ", "3", ")", " ", "{", " ", "x",
      " ", "=", " ", "x", " ", "+", " ", "1", ";", " ", "}", " ", "r", "e",
      "t", "u", "r", "n", " ", "x", ";">>

\* fun fact(n) { if (n <= 1) { return 1; } return n * fact(n - 1); } return fact(5);
FactorialSource ==
    <<"f", "u", "n", " ", "f", "a", "c", "t", "(", "n", ")", " ", "{", " ",
      "i", "f", " ", "(", "n", " ", "<", "=", " ", "1", ")", " ", "{", " ",
      "r", "e", "t", "u", "r", "n", " ", "1", ";", " ", "}", " ", "r", "e",
      "t", "u", "r", "n", " ", "n", " ", "*", " ", "f", "a", "c", "t", "(",
      "n", " ", "-", " ", "1", ")", ";", " ", "}", " ", "r", "e", "t", "u",
      "r", "n", " ", "f", "a", "c", "t", "(", "5", ")", ";">>

\* return f(); fun f() { return 7; }
ForwardCallSource ==
    <<"r", "e", "t", "u", "r", "n", " ", "f", "(", ")", ";", " ", "f", "u",
      "n", " ", "f", "(", ")", " ", "{", " ", "r", "e", "t", "u", "r", "n",
      " ", "7", ";", " ", "}">>

\* let a = [0,0]; let b = a; b[0] = 5; return a[0];
AliasSource ==
    <<"l", "e", "t", " ", "a", " ", "=", " ", "[", "0", ",", "0", "]", ";",
      " ", "l", "e", "t", " ", "b", " ", "=", " ", "a", ";", " ", "b", "[",
      "0", "]", " ", "=", " ", "5", ";", " ", "r", "e", "t", "u", "r", "n",
      " ", "a", "[", "0", "]", ";">>

\* return x;
UndeclaredReadSource ==
    <<"r", "e", "t", "u", "r", "n", " ", "x", ";">>

\* x = 1;
UndeclaredAssignSource ==
    <<"x", " ", "=", " ", "1", ";">>

\* fun f() { return y; }
UndeclaredInFunctionSource ==
    <<"f", "u", "n", " ", "f", "(", ")", " ", "{", " ", "r", "e", "t", "u",
      "r", "n", " ", "y", ";", " ", "}">>

\* if (true) { z = 2; }
UndeclaredInBlockSource ==
    <<"i", "f", " ", "(", "t", "r", "u", "e", ")", " ", "{", " ", "z", " ",
      "=", " ", "2", ";", " ", "}">>

\* fun f() { return 1; } return w;
UndeclaredAfterFunctionSource ==
    <<"f", "u", "n", " ", "f", "(", ")", " ", "{", " ", "r", "e", "t", "u",
      "r", "n", " ", "1", ";", " ", "}", " ", "r", "e", "t", "u", "r", "n",
      " ", "w", ";">>

\* (the empty source)
EmptySource == <<>>

\* 1 2;
TwoLiteralsSource ==
    <<"1", " ", "2", ";">>

\* x y;
TwoIdentifiersSource ==
    <<"x", " ", "y", ";">>

\* return;
ReturnNothingSource ==
    <<"r", "e", "t", "u", "r", "n", ";">>

\* let x;
DeclarationSource ==
    <<"l", "e", "t", " ", "x", ";">>

\* fun g() {}
EmptyFunctionSource ==
    <<"f", "u", "n", " ", "g", "(", ")", " ", "{", "}">>

\* fun f(a) { x a; }
ParameterSource ==
    <<"f", "u", "n", " ", "f", "(", "a", ")", " ", "{", " ", "x", " ", "a",
      ";", " ", "}">>

\* f g(); fun g() {}
EarlyCallSource ==
    <<"f", " ", "g", "(", ")", ";", " ", "f", "u", "n", " ", "g", "(", ")",
      " ", "{", "}">>

\* 1 "s";
StringSource ==
    <<"1", " ", "\"", "s", "\"", ";">>

\* x print();
PrintSource ==
    <<"x", " ", "p", "r", "i", "n", "t", "(", ")", ";">>

\* "abc
UnterminatedSource ==
    <<"\"", "a", "b", "c">>

\* x "a
\* b
MultiLineUnterminatedSource ==
    <<"x", " ", "\"", "a", "\n", "b">>

\* 1 "ab\
EscapeUnterminatedSource ==
    <<"1", " ", "\"", "a", "b", "\\">>

\* fun g(a) {} g();
WrongCountSource ==
    <<"f", "u", "n", " ", "g", "(", "a", ")", " ", "{", "}", " ", "g", "(",
      ")", ";">>

\* f g(); fun g(a) {}
EarlyWrongCountSource ==
    <<"f", " ", "g", "(", ")", ";", " ", "f", "u", "n", " ", "g", "(", "a",
      ")", " ", "{", "}">>

\* f g(1 2); fun g() {}
ExtraArgumentSource ==
    <<"f", " ", "g", "(", "1", " ", "2", ")", ";", " ", "f", "u", "n", " ",
      "g", "(", ")", " ", "{", "}">>

\* let x; let x;
RedeclarationSource ==
    <<"l", "e", "t", " ", "x", ";", " ", "l", "e", "t", " ", "x", ";">>

\* fun f(a, a) {}
DuplicateParameterSource ==
    <<"f", "u", "n", " ", "f", "(", "a", ",", " ", "a", ")", " ", "{", "}">>

\* let x; { let x; }
ShadowingSource ==
    <<"l", "e", "t", " ", "x", ";", " ", "{", " ", "l", "e", "t", " ", "x",
      ";", " ", "}">>

\* x print(1 2);
PrintLiteralSource ==
    <<"x", " ", "p", "r", "i", "n", "t", "(", "1", " ", "2", ")", ";">>

\* x y = 1 2;
AssignmentSource ==
    <<"x", " ", "y", " ", "=", " ", "1", " ", "2", ";">>

\* fun g() {} 1 2;
FunctionFirstSource ==
    <<"f", "u", "n", " ", "g", "(", ")", " ", "{", "}", " ", "1", " ", "2",
      ";">>

\* fun f() { if (1 2) { return 3 4; } }
IfReturnSource ==
    <<"f", "u", "n", " ", "f", "(", ")", " ", "{", " ", "i", "f", " ", "(",
      "1", " ", "2", ")", " ", "{", " ", "r", "e", "t", "u", "r", "n", " ",
      "3", " ", "4", ";", " ", "}", " ", "}">>

\* while (1 2) { }
WhileSource ==
    <<"w", "h", "i", "l", "e", " ", "(", "1", " ", "2", ")", " ", "{", " ",
      "}">>

\* if (1 2) { }
IfSource ==
    <<"i", "f", " ", "(", "1", " ", "2", ")", " ", "{", " ", "}">>

\* if (1 2) { } else { }
IfElseSource ==
    <<"i", "f", " ", "(", "1", " ", "2", ")", " ", "{", " ", "}", " ", "e",
      "l", "s", "e", " ", "{", " ", "}">>

\* 1 2 ? 3 4 : 5 6;
TernarySource ==
    <<"1", " ", "2", " ", "?", " ", "3", " ", "4", " ", ":", " ", "5", " ",
      "6", ";">>

\* 1;
OneLiteralSource ==
    <<"1", ";">>

\* x + 2;
SumSource ==
    <<"x", " ", "+", " ", "2", ";">>

\* f(3);
CallArgumentSource ==
    <<"f", "(", "3", ")", ";">>

\* [];
ArraySource ==
    <<"[", "]", ";">>

\* let a = {};
ObjectSource ==
    <<"l", "e", "t", " ", "a", " ", "=", " ", "{", "}", ";">>

MaxCompiles == 3

Sources ==
    {LoopSource, FactorialSource, ForwardCallSource, AliasSource,
     UndeclaredReadSource, UndeclaredAssignSource, UndeclaredInFunctionSource,
     UndeclaredInBlockSource, UndeclaredAfterFunctionSource, EmptySource,
     TwoLiteralsSource, TwoIdentifiersSource, ReturnNothingSource, DeclarationSource,
     EmptyFunctionSource, ParameterSource, EarlyCallSource, StringSource, PrintSource,
     UnterminatedSource, MultiLineUnterminatedSource, EscapeUnterminatedSource,
     WrongCountSource, EarlyWrongCountSource, ExtraArgumentSource,
     RedeclarationSource, DuplicateParameterSource, ShadowingSource,
     PrintLiteralSource,
     AssignmentSource,
     FunctionFirstSource,
     IfReturnSource, WhileSource,
     IfSource, IfElseSource, TernarySource,
     OneLiteralSource, SumSource, CallArgumentSource,
     ArraySource, ObjectSource}

\* The sources of the runs that compile several times.
CompileSources ==
    {LoopSource, EmptySource, TwoLiteralsSource, DeclarationSource, ParameterSource,
     EarlyCallSource, StringSource, UnterminatedSource}

-----------------------------------------------------------------------------
(* The compiled artifacts that the model runs.  An artifact is a bytecode  *)
(* sequence, a constant pool and the arrays its pool refers to.            *)

MaxNum == 7     \* operands of the arithmetic programs range over -MaxNum..MaxNum
MaxArg == 2     \* the recursive program is started with 0..MaxArg
MaxPushed == 3  \* a one-instruction program is run on 0..MaxPushed operands

Artifact(code, pool) == [bytecode |-> code, constantPool |-> pool, heap |-> <<>>]

\* The two elements that push constant i: OpCode.PUSH_CONST, then the index.
PushC(i) == <<Op("PUSH_CONST"), i>>

Operands == {Num(n) : n \in -MaxNum..MaxNum}
SmallOperands == {Num(-1), Num(0), Num(2), Null}

\* a, b pushed and one binary instruction applied to them
BinaryProgram(op, a, b) ==
    Artifact(PushC(0) \o PushC(1) \o <<op, OpCode.HALT>>, <<a, b>>)

BinaryOps == {OpCode.ADD, OpCode.SUB, OpCode.MUL, OpCode.DIV, OpCode.EQ,
              OpCode.NEQ, OpCode.GT, OpCode.LT, OpCode.GTE, OpCode.LTE}

\* k operands pushed (the k first constants of the pool) and one instruction,
\* with its inline operands, executed on them
RECURSIVE Pushes(_)
Pushes(k) == IF k = 0 THEN <<>> ELSE Pushes(k - 1) \o PushC(k - 1)

OneInstruction(instr, k, pool) ==
    [Artifact(Pushes(k) \o instr \o <<OpCode.HALT>>, pool) EXCEPT !.heap = <<<<Null, Null>>>>]

Instructions ==
    {<<op>> : op \in BinaryOps \cup {OpCode.POP, OpCode.DUP, OpCode.SWAP,
                 OpCode.PRINT, OpCode.INPUT, OpCode.EXIT, OpCode.HALT,
                 OpCode.RET, OpCode.ARRAY_CREATE, OpCode.ARRAY_GET,
                 OpCode.ARRAY_SET, OpCode.PUSH, OpCode.FUN}}
    \cup {<<op, 64>> : op \in {OpCode.JMP, OpCode.JZ, OpCode.JNZ}}
    \cup {<<OpCode.JMP>>, <<Op("PUSH_CONST")>>, PushC(5)}
    \cup {<<OpCode.CALL, addr, n>> : addr \in {1, 64}, n \in 0..2}

\* k operands pushed and one jump whose target is the HALT after an EXIT: the
\* run stops at the EXIT when the jump is not taken.
JumpProgram(op, k, pool) ==
    [Artifact(Pushes(k) \o <<op, 2 * k + 3, OpCode.EXIT, OpCode.HALT>>, pool)
        EXCEPT !.heap = <<<<Null, Null>>>>]

Pools == {<<Num(1), Num(0), Num(2)>>, <<Arr(1), Num(1), Num(5)>>,
          <<Arr(1), Num(2), Null>>, <<Bool(FALSE), Str(""), Num(-1)>>}

\* A caller that holds one value below the argument of a call: the callee
\* at 9 returns its argument, and the caller drops the result.
CallProgram ==
    Artifact(PushC(0) \o PushC(1) \o <<OpCode.CALL, 9, 1, OpCode.POP, OpCode.HALT>>
             \o <<OpCode.DUP, OpCode.RET>>,
             <<Num(10), Num(3)>>)

\* A call with no argument from an empty stack.
PlainCallProgram ==
    Artifact(<<OpCode.CALL, 5, 0, OpCode.POP, OpCode.HALT>> \o PushC(0) \o <<OpCode.RET>>,
             <<Num(10)>>)

\* f(n) = if n is 0 then 0 else f(n - 1), called with n at top level:
\*   0: push n; 2: CALL 7 1; 5: POP; 6: HALT
\*   7: DUP; 8: JZ 19; 10: DUP; 11: push 1; 13: SUB; 14: CALL 7 1; 17: RET; 18: HALT
\*  19: push 0; 21: RET
RecursiveProgram(n) ==
    Artifact(PushC(0) \o <<OpCode.CALL, 7, 1, OpCode.POP, OpCode.HALT>>
             \o <<OpCode.DUP, OpCode.JZ, 19, OpCode.DUP>> \o PushC(1)
             \o <<OpCode.SUB, OpCode.CALL, 7, 1, OpCode.RET, OpCode.HALT>>
             \o PushC(2) \o <<OpCode.RET>>,
             <<Num(n), Num(1), Num(0)>>)

\* A call that claims more arguments than the stack holds, whose callee
\* calls on: the inner return restores a frame pointer below 0.
OverclaimProgram ==
    Artifact(<<OpCode.CALL, 4, 1, OpCode.HALT>> \o <<OpCode.CALL, 8, 0, OpCode.RET>>
             \o PushC(0) \o <<OpCode.RET>>,
             <<Num(1)>>)

\* A call as the last instruction of the sequence: the callee returns to
\* the index after the last element.
TailCallProgram ==
    Artifact(<<OpCode.JMP, 5>> \o PushC(0) \o <<OpCode.RET>> \o <<OpCode.CALL, 2, 0>>,
             <<Num(4)>>)

\* Counts the constant 2 down to 0 in a loop closed by JNZ.
LoopProgram ==
    Artifact(PushC(0) \o PushC(1) \o <<OpCode.SUB, OpCode.DUP, OpCode.JNZ, 2, OpCode.HALT>>,
             <<Num(2), Num(1)>>)

\* let a = [0, 0]; let b = a; b[0] = 5; a[0]  in instructions: an array of
\* size 2 is created, duplicated, written through the copy and read through
\* the original.
AliasProgram ==
    Artifact(PushC(0) \o <<OpCode.ARRAY_CREATE, OpCode.DUP>> \o PushC(1) \o PushC(2)
             \o <<OpCode.ARRAY_SET>> \o PushC(1) \o <<OpCode.ARRAY_GET, OpCode.HALT>>,
             <<Num(2), Num(0), Num(5)>>)

\* Programs that end without a halt instruction.
OpenEndPrograms == {Artifact(<<>>, <<>>), Artifact(PushC(0), <<Num(4)>>),
                    Artifact(PushC(0) \o PushC(1) \o <<OpCode.ADD>>, <<Num(4), Num(1)>>),
                    Artifact(<<OpCode.CALL, 1>>, <<>>)}

Artifacts ==
    {BinaryProgram(OpCode.DIV, a, b) : a \in Operands, b \in Operands}
    \cup {BinaryProgram(op, a, b) : op \in BinaryOps, a \in SmallOperands, b \in SmallOperands}
    \cup {OneInstruction(i, k, pool) : i \in Instructions, k \in 0..MaxPushed, pool \in Pools}
    \cup {JumpProgram(op, k, pool) : op \in {OpCode.JMP, OpCode.JZ, OpCode.JNZ},
                                      k \in 0..MaxPushed, pool \in Pools}
    \cup {RecursiveProgram(n) : n \in 0..MaxArg}
    \cup {CallProgram, PlainCallProgram, OverclaimProgram, TailCallProgram,
          LoopProgram, AliasProgram}
    \cup OpenEndPrograms

-----------------------------------------------------------------------------
(* Compiled artifacts in files.  The content of a .gbc file is held as the *)
(* JSON value that its text denotes: a tagged value, where an array holds  *)
(* its elements and an object its fields.                                  *)

JsonArray(elems) == [t |-> "array", elems |-> elems]
JsonObject(fields) == [t |-> "object", fields |-> fields]
\* a text that JSON.parse does not accept
InvalidJson == [t |-> "invalid"]
\* a path that existsSync does not find
NoFile == [t |-> "no file"]

\* JSON.stringify of an element of a number[]: undefined is written as null.
StringifyElement(x) == IF x = undefined THEN null ELSE x

\* JSON.stringify of a value that is not an array: undefined, NaN and the
\* infinities are written as null.
StringifyScalar(x) == IF x.t \in {"undefined", "NaN", "Infinity"} THEN Null ELSE x

\* JSON.stringify of a value of the constant pool; h holds the arrays, and an
\* array is written by its elements (none of which is an array).
StringifyValue(x, h) ==
    IF x.t = "array"
    THEN JsonArray([i \in 1..Len(h[x.ref]) |-> StringifyScalar(h[x.ref][i])])
    ELSE StringifyScalar(x)

\* JSON.stringify({ bytecode, constantPool }, null, 2)
JsonStringify(artifact, h) ==
    JsonObject([bytecode |->
                    JsonArray([i \in 1..Len(artifact.bytecode) |->
                                  StringifyElement(artifact.bytecode[i])]),
                constantPool |->
                    JsonArray([i \in 1..Len(artifact.constantPool) |->
                                  StringifyValue(artifact.constantPool[i], h)])])

\* const { bytecode, constantPool } = JSON.parse(content): a field that the
\* object does not have, and any field of a value that is not an object, is
\* undefined.
FieldOf(json, name) ==
    IF json.t = "object" /\ name \in DOMAIN json.fields THEN json.fields[name] ELSE Undef

\* Array.isArray
IsArray(x) == x.t = "array"

\* The constant pool that JSON.parse builds from the elements written: each
\* array written is a new array object.
RECURSIVE ParsePool(_, _, _)
ParsePool(elems, pool, h) ==
    IF elems = <<>> THEN [constantPool |-> pool, heap |-> h]
    ELSE IF Head(elems).t = "array"
    THEN ParsePool(Tail(elems), Append(pool, Arr(Len(h) + 1)), Append(h, Head(elems).elems))
    ELSE ParsePool(Tail(elems), Append(pool, Head(elems)), h)

\* The file that the artifact a is written as.
ArtifactFile(a) ==
    JsonStringify([bytecode |-> a.bytecode, constantPool |-> a.constantPool], a.heap)

\* Contents that are not an object of two arrays.
MalformedFiles ==
    {InvalidJson, Null, Num(7), JsonArray(<<OpCode.HALT>>),
     JsonObject([bytecode |-> JsonArray(<<OpCode.HALT>>)]),
     JsonObject([bytecode |-> JsonArray(<<OpCode.DUP, OpCode.HALT>>)]),
     JsonObject([constantPool |-> JsonArray(<<Num(4)>>)]),
     JsonObject([bytecode |-> Null, constantPool |-> JsonArray(<<>>)]),
     JsonObject([bytecode |-> Num(7), constantPool |-> JsonArray(<<>>)]),
     JsonObject([bytecode |-> Str("x"), constantPool |-> JsonArray(<<>>)]),
     JsonObject([bytecode |-> JsonObject([length |-> Num(1)]),
                 constantPool |-> JsonArray(<<>>)]),
     JsonObject([bytecode |-> JsonArray(<<OpCode.HALT>>), constantPool |-> Null]),
     JsonObject([bytecode |-> JsonArray(<<OpCode.HALT>>), constantPool |-> Num(7)]),
     JsonObject([bytecode |-> JsonArray(<<OpCode.HALT>>), constantPool |-> Str("x")])}

\* The .gbc files that the entry points are run on.
GbcFiles == {ArtifactFile(a) : a \in Artifacts} \cup MalformedFiles \cup {NoFile}

\* The files whose fields the VM of the model can hold when they are handed
\* to it unchecked: the bytecode is an array or is not there at all, and the
\* constant pool is an array or is left to the constructor's default.
CliFiles ==
    {c \in GbcFiles :
        \/ c \in {NoFile, InvalidJson, Null}
        \/ /\ FieldOf(c, "bytecode").t \in {"array", "undefined", "null"}
           /\ FieldOf(c, "constantPool").t \in {"array", "undefined"}}

-----------------------------------------------------------------------------
(* The specification.                                                      *)

Init ==
    /\ pc = "idle"
    /\ bytecode = <<>>
    /\ constantPool = <<>>
    /\ heap = <<>>
    /\ stack = <<>>
    /\ ip = 0
    /\ running = TRUE
    /\ globals = <<>>
    /\ callStack = <<>>
    /\ framePointer = 0
    /\ rl = FALSE
    /\ output = <<>>
    /\ result = Undef
    /\ error = NoError
    /\ compilations = <<>>
    /\ files = <<>>
    /\ content = Undef
    /\ codegen = [generator |-> CodeGenerator, saved |-> <<>>, base |-> -1, left |-> {}]

\* Gyro.runBytecodeFile, or a caller of its own: a VM is built from an
\* artifact and run.
RunArtifact ==
    /\ pc = "idle"
    /\ \E a \in Artifacts : GyroVM(a.bytecode, a.constantPool, a.heap)
    /\ UNCHANGED hostVars

\* Gyro.run(source): compile, then build a VM from the output and run it.
GyroRun(source) ==
    /\ pc = "idle"
    /\ \E compiled \in {compile(source)} :
           /\ compilations' = Append(compilations, [source |-> source, result |-> compiled])
           /\ UNCHANGED <<files, content, codegen>>
           /\ IF compiled.err.kind # "none"
              THEN /\ pc' = "error"
                   /\ error' = compiled.err
                   /\ UNCHANGED <<vmVars, result>>
              ELSE GyroVM(compiled.output.bytecode, compiled.output.constantPool, <<>>)

\* Gyro.compile(source), called again and again by one caller.
GyroCompile(source) ==
    /\ pc = "idle"
    /\ Len(compilations) < MaxCompiles
    /\ compilations' = Append(compilations, [source |-> source, result |-> compile(source)])
    /\ UNCHANGED <<pc, vmVars, result, error, files, content, codegen>>

\* Gyro.compileToFile(source, outFilePath)
CompileToFile(source) ==
    /\ pc = "idle"
    /\ Len(compilations) < MaxCompiles
    /\ \E compiled \in {compile(source)} :
           /\ compilations' = Append(compilations, [source |-> source, result |-> compiled])
           /\ IF compiled.err.kind # "none"
              THEN /\ pc' = "error"
                   /\ error' = compiled.err
                   /\ UNCHANGED files
              ELSE /\ files' = Append(files, JsonStringify(compiled.output, <<>>))
                   /\ UNCHANGED <<pc, error>>
    /\ UNCHANGED <<vmVars, result, content, codegen>>

\* An entry point throws before it has a VM.
Reject(kind) ==
    /\ pc' = "error"
    /\ error' = RuntimeError(kind)
    /\ UNCHANGED <<vmVars, result>>

\* Gyro.runBytecodeFile(filePath), on a file of this content
RunBytecodeFile(read) ==
    /\ pc = "idle"
    /\ content' = read
    /\ UNCHANGED <<compilations, files, codegen>>
    /\ IF read = NoFile THEN Reject("Bytecode file not found")
       ELSE IF read = InvalidJson THEN Reject("SyntaxError")
       ELSE IF read = Null THEN Reject("TypeError")
       ELSE IF ~IsArray(FieldOf(read, "bytecode")) \/ ~IsArray(FieldOf(read, "constantPool"))
       THEN Reject("Invalid GBC file format")
       ELSE \E parsed \in {ParsePool(FieldOf(read, "constantPool").elems, <<>>, <<>>)} :
                GyroVM(FieldOf(read, "bytecode").elems, parsed.constantPool, parsed.heap)

\* The run command of the command line on a file named *.gbc of this
\* content.  The fields go to the constructor as they are; a constant pool
\* that is undefined is replaced by the parameter's default, and a bytecode
\* that is undefined or null makes the loop condition of run() throw.
CliRunGbc(read) ==
    /\ pc = "idle"
    /\ content' = read
    /\ UNCHANGED <<compilations, files, codegen>>
    /\ IF read = NoFile THEN pc' = "done" /\ UNCHANGED <<vmVars, result, error>>
       ELSE IF read = InvalidJson THEN Reject("SyntaxError")
       ELSE IF read = Null THEN Reject("TypeError")
       ELSE \E parsed \in {IF IsArray(FieldOf(read, "constantPool"))
                            THEN ParsePool(FieldOf(read, "constantPool").elems, <<>>, <<>>)
                            ELSE [constantPool |-> <<>>, heap |-> <<>>]} :
                IF IsArray(FieldOf(read, "bytecode"))
                THEN GyroVM(FieldOf(read, "bytecode").elems, parsed.constantPool, parsed.heap)
                ELSE /\ Construct(<<>>, parsed.constantPool, parsed.heap)
                     /\ pc' = "error"
                     /\ error' = RuntimeError("TypeError")
                     /\ UNCHANGED result

Next ==
    \/ RunArtifact
    \/ \E source \in Sources : GyroRun(source)
    \/ \E source \in Sources : CompileToFile(source)
    \/ \E read \in GbcFiles \cup {files[k] : k \in DOMAIN files} : RunBytecodeFile(read)
    \/ \E read \in CliFiles : CliRunGbc(read)
    \/ ExecPushConst \/ ExecPop \/ ExecDup \/ ExecSwap
    \/ \E c \in {"ADD", "SUB", "MUL"} : ExecArith(c)
    \/ ExecDiv
    \/ ExecEq \/ ExecNeq
    \/ \E c \in {"GT", "LT", "GTE", "LTE"} : ExecCompare(c)
    \/ ExecJmp \/ ExecJz \/ ExecJnz \/ ExecCall \/ ExecRet
    \/ ExecPrint \/ ExecInput \/ ExecExit \/ ExecHalt
    \/ ExecArrayCreate \/ ExecArrayGet \/ ExecArraySet
    \/ ExecDefault
    \/ RunReturn

Spec == Init /\ [][Next]_vars

\* The runs of a caller that only compiles.
-----------------------------------------------------------------------------
(* The scopes of a code generation, step by step.  codegen.generator is    *)
(* the generator; codegen.saved holds, for each block that is open, the    *)
(* scope that its visit has in previous; codegen.base is the number of     *)
(* blocks that were open when the function being visited was entered, -1   *)
(* at the top level; codegen.left holds the offsets of the variables of    *)
(* the blocks that were left.                                              *)

MaxBlocks == 2  \* at most MaxBlocks blocks are open at a time
Names == {"x", "y"}
ParameterLists == {<<>>, <<[value |-> "x"]>>, <<[value |-> "x"], [value |-> "y"]>>}

\* generate(ast), up to the visit of the program
Generate ==
    /\ codegen' = [generator |-> [CodeGenerator EXCEPT !.currentScope = <<LocalScope(0)>>],
                   saved |-> <<>>, base |-> -1, left |-> {}]
    /\ UNCHANGED <<pc, vmVars, result, error, compilations, files, content>>

\* visitFunctionDeclaration, up to the visit of the body
EnterFunction(params) ==
    /\ codegen.generator.err.kind = "none"
    /\ codegen.generator.currentScope # <<>>
    /\ codegen.base = -1
    /\ codegen' = [codegen EXCEPT
                      !.generator = defineAll(params, [@ EXCEPT !.currentScope = <<LocalScope(0)>>]),
                      !.base = Len(codegen.saved)]
    /\ UNCHANGED <<pc, vmVars, result, error, compilations, files, content>>

\* visitFunctionDeclaration, after the visit of the body
LeaveFunction ==
    /\ codegen.generator.err.kind = "none"
    /\ codegen.base = Len(codegen.saved)
    /\ codegen' = [codegen EXCEPT !.generator.currentScope = <<>>, !.base = -1]
    /\ UNCHANGED <<pc, vmVars, result, error, compilations, files, content>>

\* visitBlockStatement, up to the visit of the body
EnterBlock ==
    /\ codegen.generator.err.kind = "none"
    /\ Len(codegen.saved) < MaxBlocks
    /\ codegen' = [codegen EXCEPT
                      !.generator.currentScope = Append(@, ChildScope(@)),
                      !.saved = Append(@, codegen.generator.currentScope)]
    /\ UNCHANGED <<pc, vmVars, result, error, compilations, files, content>>

\* The offsets of the variables of a scope.
OffsetsOf(scope) == {scope.variables[name] : name \in DOMAIN scope.variables}

\* visitBlockStatement, after the visit of the body
LeaveBlock ==
    /\ codegen.generator.err.kind = "none"
    /\ Len(codegen.saved) > (IF codegen.base = -1 THEN 0 ELSE codegen.base)
    /\ codegen' = [codegen EXCEPT
                      !.generator.currentScope = codegen.saved[Len(codegen.saved)],
                      !.saved = SubSeq(@, 1, Len(@) - 1),
                      !.left = IF codegen.generator.currentScope = <<>> THEN @
                               ELSE @ \cup OffsetsOf(codegen.generator.currentScope[
                                                         Len(codegen.generator.currentScope)])]
    /\ UNCHANGED <<pc, vmVars, result, error, compilations, files, content>>

\* visitVariableDeclaration, its first statement
Declare(name) ==
    /\ codegen.generator.err.kind = "none"
    /\ codegen' = [codegen EXCEPT
                      !.generator = IF @.currentScope = <<>> THEN TypeError(@)
                                    ELSE define(@, name)]
    /\ UNCHANGED <<pc, vmVars, result, error, compilations, files, content>>

NextScope ==
    \/ Generate
    \/ \E params \in ParameterLists : EnterFunction(params)
    \/ LeaveFunction
    \/ EnterBlock
    \/ LeaveBlock
    \/ \E name \in Names : Declare(name)

SpecScope == Init /\ [][NextScope]_vars

NextCompile == \E source \in CompileSources : GyroCompile(source)

SpecCompile == Init /\ [][NextCompile]_vars

-----------------------------------------------------------------------------
(* The properties.                                                         *)

\* Gyro.run(source) was called and the call is over.
RunOver(source) ==
    /\ compilations # <<>>
    /\ compilations[1].source = source
    /\ pc \in {"done", "error", "hang"}

\* C1: compiling and running the loop source ends without an error and the
\* result is the number 3.
C1_LoopYieldsThree ==
    RunOver(LoopSource) => pc = "done" /\ error = NoError /\ result = Num(3)

\* The instruction about to run is a RET that returns a value to a caller
\* whose call had all its arguments on the stack: the frame pointer, set by
\* CALL to the depth below the arguments, is within the stack and not
\* below the caller's.
ReturnsToCaller ==
    /\ Fetch("RET")
    /\ callStack # <<>>
    /\ callStack[Len(callStack)].framePointer >= 0
    /\ callStack[Len(callStack)].framePointer <= framePointer
    /\ framePointer < Len(stack)
    /\ Top(1) # Undef

\* C2: when a call of a function returns, the operand stack holds the result
\* on top of exactly the entries that were there before the arguments of the
\* call were pushed (the callee's frame pointer is that depth), so that the
\* depth is the old one once the result is consumed.
C2_CallRestoresDepth ==
    [][ReturnsToCaller => Len(stack') - 1 = framePointer]_vars

\* C3: compiling and running the recursive factorial source yields 120.
C3_FactorialYields120 ==
    RunOver(FactorialSource) => pc = "done" /\ error = NoError /\ result = Num(120)

\* The sources that call a top-level function before its declaration.
ForwardCallSources == {ForwardCallSource, EarlyCallSource}

\* C4: a source that calls a top-level function declared later compiles,
\* and the address operand of every CALL in its bytecode is the entry
\* address of a function of the program.
C4_ForwardCallResolved ==
    \A k \in DOMAIN compilations :
        compilations[k].source \in ForwardCallSources =>
            LET compiled == compilations[k].result
                code == compiled.output.bytecode
                functions == compiled.generator.globalFunctions
            IN  /\ compiled.err = NoError
                /\ \E i \in 1..Len(code) : code[i] = OpCode.CALL
                /\ \A i \in 1..(Len(code) - 2) :
                       code[i] = OpCode.CALL =>
                           \E name \in DOMAIN functions :
                               /\ functions[name].address = code[i + 1]
                               /\ functions[name].address >= 0

\* The sources that read or assign an identifier that nothing declares.
UndeclaredSources ==
    {UndeclaredReadSource, UndeclaredAssignSource, UndeclaredInFunctionSource,
     UndeclaredInBlockSource, UndeclaredAfterFunctionSource, TwoIdentifiersSource}

\* C5: compiling a source that reads or assigns an undeclared identifier
\* fails with the undefined-variable error of the code generator, and
\* returns no bytecode.
C5_UndeclaredIsCodegenError ==
    \A k \in DOMAIN compilations :
        compilations[k].source \in UndeclaredSources =>
            /\ compilations[k].result.err.kind = "Undefined variable"
            /\ compilations[k].result.output = Undef

\* The number of operand-stack entries that the instruction about to run
\* needs; CALL needs as many as its argument-count operand says.
Needed ==
    LET c == CaseOf(At(bytecode, ip))
    IN  CASE c \in {"POP", "DUP", "NEG", "NOT", "JZ", "JNZ", "STORE_LOCAL",
                    "STORE_GLOBAL", "PRINT", "ARRAY_CREATE", "RET"} -> 1
          [] c \in {"SWAP", "ADD", "SUB", "MUL", "DIV", "EQ", "NEQ", "GT", "LT",
                    "GTE", "LTE", "ARRAY_GET"} -> 2
          [] c = "ARRAY_SET" -> 3
          [] c = "CALL" -> IF At(bytecode, ip + 2) = undefined THEN 0
                           ELSE At(bytecode, ip + 2)
          [] OTHER -> 0

\* C6: an instruction that runs with fewer operand-stack entries than it
\* needs ends the run with the stack-underflow error that names its opcode.
C6_UnderflowIsNamedError ==
    [][(pc = "running" /\ running /\ ip < Len(bytecode) /\ Len(stack) < Needed) =>
           /\ pc' = "error"
           /\ error'.kind = "Stack underflow"
           /\ error'.opcode = CaseOf(At(bytecode, ip))]_vars

\* C7: a run that ended without an error ended by HALT or EXIT or by a RET
\* with an empty call stack (the three places that clear the running flag),
\* and a run that ended by an error has no result.
C7_EndsOnlyByHaltReturnOrError ==
    /\ pc = "done" => ~running
    /\ pc = "error" => result = Undef

\* q is the floor of a / b: the greatest integer not above the quotient.
IsFloor(q, a, b) ==
    IF b > 0 THEN q * b <= a /\ a < (q + 1) * b
    ELSE q * b >= a /\ a > (q + 1) * b

\* The instruction about to run is a DIV on two integers.
IntegerDiv == Fetch("DIV") /\ ensureStack(2) /\ IsNumber(Top(1)) /\ IsNumber(Top(2))

\* C8: DIV on the integers a and b, b not 0, replaces them by floor(a / b),
\* whatever their signs; with b = 0 it ends the run with the
\* division-by-zero error and pushes nothing.
C8_DivFloors ==
    [][IntegerDiv =>
           IF Top(1).v = 0
           THEN /\ pc' = "error"
                /\ error'.kind = "Division by zero"
                /\ stack' = Pop(2)
                /\ result' = Undef
           ELSE /\ pc' = "running"
                /\ Len(stack') = Len(stack) - 1
                /\ SubSeq(stack', 1, Len(stack') - 1) = Pop(2)
                /\ IsNumber(stack'[Len(stack')])
                /\ IsFloor(stack'[Len(stack')].v, Top(2).v, Top(1).v)]_vars

\* (-7) / 2 has just been computed, and has given -4.
C8_Witness ==
    /\ pc = "running"
    /\ constantPool = <<Num(-7), Num(2)>>
    /\ ip = 5
    /\ At(bytecode, 4) = OpCode.DIV
    /\ stack = <<Num(-4)>>

\* C9: compiling and running the aliasing source, which writes an element
\* through b and reads it through a, yields 5.
C9_AliasYieldsFive ==
    RunOver(AliasSource) => pc = "done" /\ error = NoError /\ result = Num(5)

-----------------------------------------------------------------------------
(* Artifacts in files.                                                      *)

\* The file that each artifact is written as.
ArtifactFiles == [a \in Artifacts |-> ArtifactFile(a)]

IllFormed(c) ==
    /\ c.t \notin {"undefined", "no file", "invalid"}
    /\ ~IsArray(FieldOf(c, "bytecode")) \/ ~IsArray(FieldOf(c, "constantPool"))

\* C12: after an entry point was given an ill-formed payload, the run has
\* failed with the format error and no instruction was executed.
C12_IllFormedIsRejected ==
    IllFormed(content) =>
        /\ pc = "error"
        /\ error.kind = "Invalid GBC file format"
        /\ ip = 0
        /\ stack = <<>>

-----------------------------------------------------------------------------
(* Positions in a source.                                                  *)

\* The sources whose last string literal is not closed.
UnterminatedSources ==
    {UnterminatedSource, MultiLineUnterminatedSource, EscapeUnterminatedSource}

\* The index of the first quote of the source.
FirstQuote(src) == CHOOSE i \in 1..Len(src) : src[i] = "\"" /\ \A j \in 1..(i - 1) : src[j] # "\""

\* The line and the column of the character at index i, both from 1.
LineOf(src, i) == 1 + Cardinality({j \in 1..(i - 1) : src[j] = "\n"})
ColumnOf(src, i) == Cardinality({j \in 1..i : \A n \in j..(i - 1) : src[n] # "\n"})

\* C13: compiling a source whose string literal is not closed fails with the
\* error of the unterminated string literal, at the line and the column of
\* the quote that opens the literal.
C13_UnterminatedAtOpeningQuote ==
    \A k \in DOMAIN compilations :
        compilations[k].source \in UnterminatedSources =>
            LET err == compilations[k].result.err
                src == compilations[k].source
            IN  /\ err.kind = "Unterminated string literal"
                /\ err.line = LineOf(src, FirstQuote(src))
                /\ err.column = ColumnOf(src, FirstQuote(src))

-----------------------------------------------------------------------------
(* The end of a run and the frame pointer.                                 *)

\* C14: when a run ends without an error, either the operand stack holds
\* exactly one value and that value is the result, or the operand stack is
\* empty and the result is undefined.
C14_OneValueRemains ==
    [][(pc = "running" /\ pc' = "done") =>
           \/ Len(stack) = 1 /\ result' = stack[1]
           \/ stack = <<>> /\ result' = Undef]_vars

\* C15: while a VM runs and when it has ended, the frame pointer is at least
\* 0 and at most the length of the operand stack.
C15_FramePointerWithinStack ==
    pc \in {"running", "done", "error"} =>
        framePointer >= 0 /\ framePointer <= Len(stack)

-----------------------------------------------------------------------------
(* Scopes.                                                                 *)

\* The variables in scope: the depth of the scope in the chain, and the name.
InScope ==
    {<<d, name>> : d \in DOMAIN codegen.generator.currentScope, name \in Names}
    \cap {v \in (1..(MaxBlocks + 1)) \X Names :
             /\ v[1] \in DOMAIN codegen.generator.currentScope
             /\ v[2] \in DOMAIN codegen.generator.currentScope[v[1]].variables}

OffsetIn(v) == codegen.generator.currentScope[v[1]].variables[v[2]]

-----------------------------------------------------------------------------
(* Calls, declarations and the ends of bodies in compiled sources.         *)

\* The sources with a call whose number of arguments is not the number of
\* parameters of the function called.
WrongCountSources == {WrongCountSource, EarlyWrongCountSource, ExtraArgumentSource}

\* C17: compiling a source with a call whose number of arguments differs
\* from the number of parameters of the function fails with the error of the
\* wrong argument count.
C17_WrongCountIsArityError ==
    \A k \in DOMAIN compilations :
        compilations[k].source \in WrongCountSources =>
            compilations[k].result.err.kind = "Wrong arg count"

\* C18: compiling a source that declares a name twice in one scope fails
\* with the redeclaration error, and a source that declares the name again
\* in a nested block compiles.
C18_RedeclarationAndShadowing ==
    \A k \in DOMAIN compilations :
        /\ compilations[k].source \in {RedeclarationSource, DuplicateParameterSource} =>
               compilations[k].result.err.kind = "Redeclaration in the same scope"
        /\ compilations[k].source = ShadowingSource =>
               compilations[k].result.err.kind = "none"

\* C19: the bytecode of a function whose body has no return ends with
\* PUSH_NULL, RET, and the bytecode of a program whose last statement is not
\* a return ends with HALT.
C19_ImplicitEndings ==
    \A k \in DOMAIN compilations :
        LET code == compilations[k].result.generator.bytecode
        IN  /\ compilations[k].source = EmptyFunctionSource =>
                   /\ compilations[k].result.err.kind = "none"
                   /\ code = <<Op("PUSH_NULL"), OpCode.RET, OpCode.HALT>>
            /\ compilations[k].source = DeclarationSource =>
                   /\ compilations[k].result.err.kind = "none"
                   /\ code # <<>>
                   /\ code[Len(code)] = OpCode.HALT

\* C20: ADD, SUB, MUL or DIV on two operands of which one is not a number
\* ends the run with the error of a type mismatch.
C20_NonNumberIsTypeError ==
    [][(/\ pc = "running" /\ running /\ ip < Len(bytecode)
        /\ CaseOf(At(bytecode, ip)) \in {"ADD", "SUB", "MUL", "DIV"}
        /\ Len(stack) >= 2
        /\ ~IsNumber(Top(1)) \/ ~IsNumber(Top(2))) =>
           /\ pc' = "error"
           /\ error'.kind = "Type mismatch"]_vars

-----------------------------------------------------------------------------
(* Locals, print and calls in the virtual machine.                         *)

\* C21: the element that OpCode.LOAD_LOCAL is, followed by the offset of a
\* slot at or beyond the end of the operand stack, ends the run with an
\* error and leaves the operand stack as it was.
C21_LoadBeyondStackFails ==
    [][(/\ pc = "running" /\ running /\ ip < Len(bytecode)
        /\ At(bytecode, ip) = Op("LOAD_LOCAL")
        /\ At(bytecode, ip + 1) >= 0
        /\ framePointer + At(bytecode, ip + 1) >= Len(stack)) =>
           /\ pc' = "error"
           /\ stack' = stack]_vars

\* C22: in the bytecode of a compilation every PRINT comes after the code of
\* an argument and is followed by an element that executes as PUSH_NULL.
C22_PrintTakesOneArgument ==
    \A k \in DOMAIN compilations :
        LET code == compilations[k].result.generator.bytecode
        IN  \A i \in DOMAIN code :
                code[i] = OpCode.PRINT =>
                    /\ i > 1
                    /\ i < Len(code)
                    /\ CaseOf(code[i + 1]) = "PUSH_NULL"

\* C23: when a call returns, the entries that the operand stack held below
\* the arguments of the call (below the callee's frame pointer) are still
\* there, each with the value it had.
C23_CallKeepsCallerEntries ==
    [][ReturnsToCaller =>
           /\ Len(stack') >= framePointer
           /\ SubSeq(stack', 1, framePointer) = SubSeq(stack, 1, framePointer)]_vars

-----------------------------------------------------------------------------
(* The bytecode of compiled statements.                                    *)

\* The number of entries by which the instruction of case c changes the
\* depth of the operand stack when it completes.
EffectOf(c) ==
    IF c \in {"PUSH_CONST", "DUP"} THEN 1
    ELSE IF c \in {"POP", "PRINT", "JZ", "JNZ", "ADD", "SUB", "MUL", "DIV",
                   "EQ", "NEQ", "GT", "LT", "GTE", "LTE"} THEN -1
    ELSE 0

\* The number of elements that the instruction of case c takes.
WidthOf(c) ==
    IF c \in {"PUSH_CONST", "JMP", "JZ", "JNZ"} THEN 2
    ELSE IF c = "CALL" THEN 3
    ELSE 1

\* The net effect on the depth of the operand stack of the elements of code
\* from index i on, run one after the other.
RECURSIVE NetEffect(_, _)
NetEffect(code, i) ==
    IF i > Len(code) THEN 0
    ELSE EffectOf(CaseOf(code[i])) + NetEffect(code, i + WidthOf(CaseOf(code[i])))

\* The sources that are one expression statement.
ExpressionStatementSources == {TwoLiteralsSource, AssignmentSource}

\* C24: a source that is one expression statement compiles, and the bytecode
\* of the statement, which a HALT follows, has a net effect of zero on the
\* depth of the operand stack.
C24_StatementLeavesDepth ==
    \A k \in DOMAIN compilations :
        compilations[k].source \in ExpressionStatementSources =>
            LET code == compilations[k].result.generator.bytecode
            IN  /\ compilations[k].result.err.kind = "none"
                /\ code # <<>>
                /\ code[Len(code)] = OpCode.HALT
                /\ NetEffect(code, 1) = 0

\* The sources that begin with a function declaration.
FunctionFirstSources == {EmptyFunctionSource, FunctionFirstSource, ParameterSource}

\* C25: a source that begins with a function declaration compiles, and the
\* code of none of its functions is at instruction 0, where the run starts.
C25_RunStartsOutsideFunctions ==
    \A k \in DOMAIN compilations :
        compilations[k].source \in FunctionFirstSources =>
            LET functions == compilations[k].result.generator.globalFunctions
            IN  /\ compilations[k].result.err.kind = "none"
                /\ \A name \in DOMAIN functions : functions[name].address > 0

-----------------------------------------------------------------------------
(* RET and CALL, step by step.                                             *)

\* The instruction about to run is a RET, the operand stack holds a value to
\* return, and the frame pointer saved in the frame on top of the call
\* stack, if there is one, is not negative.
ReturnsValue ==
    /\ Fetch("RET")
    /\ stack # <<>>
    /\ Top(1) # Undef
    /\ callStack # <<>> => callStack[Len(callStack)].framePointer >= 0

\* The smaller of two numbers.
Min(a, b) == IF a < b THEN a ELSE b

\* C26: RET pops the value on top of the operand stack.  With an empty call
\* stack it ends the loop with that value on top, and the run that ends
\* after a RET has the value as its result.  Otherwise it removes the frame
\* pushed last from the call stack, sets the instruction pointer and the
\* frame pointer to the ones saved in it, keeps of the operand stack the
\* entries below the restored frame pointer and puts the value on top.
C26_RetUnwindsOneFrame ==
    /\ [][ReturnsValue =>
             IF callStack = <<>>
             THEN /\ ~running'
                  /\ pc' = "running"
                  /\ stack' = stack
                  /\ callStack' = <<>>
             ELSE /\ callStack' = SubSeq(callStack, 1, Len(callStack) - 1)
                  /\ ip' = callStack[Len(callStack)].returnIp
                  /\ framePointer' = callStack[Len(callStack)].framePointer
                  /\ Len(stack') = Min(framePointer', Len(stack) - 1) + 1
                  /\ stack'[Len(stack')] = Top(1)
                  /\ \A i \in 1..(Len(stack') - 1) : stack'[i] = stack[i]]_vars
    /\ [][(/\ pc = "running" /\ pc' = "done" /\ ip > 0
           /\ CaseOf(At(bytecode, ip - 1)) = "RET" /\ ~running /\ stack # <<>>) =>
             result' = Top(1)]_vars

\* The callee of the call program has returned to instruction 7 of its
\* caller: the frame is gone, the frame pointer is the caller's, and of the
\* entries 10, 3, 3 only the value returned is on the operand stack.
C26_Witness ==
    /\ pc = "running"
    /\ bytecode = CallProgram.bytecode
    /\ ip = 7
    /\ callStack = <<>>
    /\ framePointer = 0
    /\ stack = <<Num(3)>>

\* The instruction about to run is a CALL whose address operand is an index
\* of the bytecode and whose argument count is a number that is not negative.
CallsFunction ==
    /\ Fetch("CALL")
    /\ At(bytecode, ip + 1) \in 0..(Len(bytecode) - 1)
    /\ At(bytecode, ip + 2) >= 0

\* C27: CALL addr n pushes one frame that holds the index of the instruction
\* after its two operands, the frame pointer and n; it sets the frame
\* pointer to the length of the operand stack minus n and the instruction
\* pointer to addr, and leaves the operand stack and the globals as they are.
C27_CallPushesOneFrame ==
    [][CallsFunction =>
           /\ pc' = "running"
           /\ callStack' = Append(callStack, [returnIp |-> ip + 3,
                                              framePointer |-> framePointer,
                                              numArgs |-> At(bytecode, ip + 2)])
           /\ framePointer' = Len(stack) - At(bytecode, ip + 2)
           /\ ip' = At(bytecode, ip + 1)
           /\ stack' = stack
           /\ globals' = globals]_vars

\* The call program has just called its callee at 9 with one argument: the
\* frame holds the return index 7 and the caller's frame pointer 0, and the
\* argument 3 is the callee's slot 0, above the caller's 10.
C27_Witness ==
    /\ pc = "running"
    /\ bytecode = CallProgram.bytecode
    /\ ip = 9
    /\ callStack = <<[returnIp |-> 7, framePointer |-> 0, numArgs |-> 1]>>
    /\ framePointer = 1
    /\ stack = <<Num(10), Num(3)>>

-----------------------------------------------------------------------------
(* The visits of the code generator.                                       *)

\* C28: the visit of a program whose nodes are of kinds that have a visitor
\* raises no error, and the bytecode is what the visitors of these nodes
\* emit, each run once: for the statement 2; it is PUSH_INT 2, POP, HALT.
C28_OneVisitorPerNode ==
    \A k \in DOMAIN compilations :
        /\ compilations[k].source \in {TwoLiteralsSource, ReturnNothingSource, EmptySource} =>
               compilations[k].result.err.kind = "none"
        /\ compilations[k].source = TwoLiteralsSource =>
               compilations[k].result.generator.bytecode =
                   <<Op("PUSH_INT"), 2, OpCode.POP, OpCode.HALT>>

\* The indices of code at which an instruction begins, when the elements
\* from index i on are taken one instruction after the other.
RECURSIVE Decoded(_, _)
Decoded(code, i) ==
    IF i > Len(code) THEN {}
    ELSE {i} \cup Decoded(code, i + WidthOf(CaseOf(code[i])))

\* C29: a function whose body ends with an if without else, the block of
\* which ends with a return, compiles; its bytecode ends with a RET, and the
\* target of every jump in it is an index of the bytecode.
C29_FunctionEndsInRet ==
    \A k \in DOMAIN compilations :
        compilations[k].source = IfReturnSource =>
            LET code == compilations[k].result.generator.bytecode
            IN  /\ compilations[k].result.err.kind = "none"
                /\ code # <<>>
                /\ code[Len(code)] = OpCode.RET
                /\ \A i \in Decoded(code, 1) :
                       CaseOf(code[i]) \in {"JMP", "JZ", "JNZ"} =>
                           At(code, i) \in 0..(Len(code) - 1)

\* C30: the bytecode of a compilation is a sequence of instructions with
\* defined opcodes, and every address operand of a jump or a call in it is
\* the index of an instruction of the sequence.
C30_BytecodeDecodes ==
    \A k \in DOMAIN compilations :
        LET code == compilations[k].result.generator.bytecode
        IN  /\ compilations[k].source \in {TwoLiteralsSource, DeclarationSource, WhileSource} =>
                   compilations[k].result.err.kind = "none"
            /\ \A i \in Decoded(code, 1) :
                   /\ code[i] # undefined
                   /\ CaseOf(code[i]) # "default"
                   /\ CaseOf(code[i]) \in {"JMP", "JZ", "JNZ", "CALL"} =>
                          At(code, i) + 1 \in Decoded(code, 1)

\* C31: `while (c) B` compiles to the code of c, JZ exit, the code of B and
\* JMP start, where start is the index of c's first instruction and exit the
\* index right after the JMP's operand: the loop `while (2) { }` compiles
\* without an error to PUSH_INT 2, JZ 6, JMP 0 followed by the final HALT.
C31_WhileLoopCode ==
    \A k \in DOMAIN compilations :
        compilations[k].source = WhileSource =>
            /\ compilations[k].result.err.kind = "none"
            /\ compilations[k].result.generator.bytecode =
                   <<Op("PUSH_INT"), 2, OpCode.JZ, 6, OpCode.JMP, 0, OpCode.HALT>>

\* C32: `if (c) A else B` and `c ? A : B` compile to c, JZ t1, A, JMP t2, B
\* with t1 the index of B's first instruction and t2 the index right after B,
\* and `if (c) A` to c, JZ t, A with t right after A; no placeholder is left
\* unpatched.
C32_ConditionalCode ==
    \A k \in DOMAIN compilations :
        /\ compilations[k].source \in {IfSource, IfElseSource, TernarySource} =>
               compilations[k].result.err.kind = "none"
        /\ compilations[k].source = IfSource =>
               compilations[k].result.generator.bytecode =
                   <<Op("PUSH_INT"), 2, OpCode.JZ, 4, OpCode.HALT>>
        /\ compilations[k].source = IfElseSource =>
               compilations[k].result.generator.bytecode =
                   <<Op("PUSH_INT"), 2, OpCode.JZ, 6, OpCode.JMP, 6, OpCode.HALT>>
        /\ compilations[k].source = TernarySource =>
               compilations[k].result.generator.bytecode =
                   <<Op("PUSH_INT"), 2, OpCode.JZ, 8, Op("PUSH_INT"), 4,
                     OpCode.JMP, 10, Op("PUSH_INT"), 6, OpCode.POP, OpCode.HALT>>

\* The opcode names the generator writes as OpCode.<name> in an emit.
EmittedOpcodes ==
    {"PUSH_INT", "PUSH_CONST", "PUSH_NULL", "PUSH_TRUE", "PUSH_FALSE",
     "STORE_LOCAL", "LOAD_LOCAL", "POP", "JZ", "JMP", "CALL", "RET", "HALT",
     "PRINT", "NEG", "NOT", "ADD", "SUB", "MUL", "DIV", "MOD", "EQ", "NEQ",
     "GT", "GTE", "LT", "LTE", "AND", "OR"}

\* C33: every opcode the generator can emit is a member of the opcode table
\* with a numeric value no other emitted opcode has, and the machine's switch
\* selects the case of that very opcode for it, never another case and never
\* the unknown-opcode default; so the first element of any bytecode a
\* compilation has emitted is the number of such an opcode.
C33_EmittedOpcodesDefined ==
    \A k \in DOMAIN compilations :
        /\ compilations[k].result.generator.bytecode # <<>> =>
               \E name \in EmittedOpcodes \cap DOMAIN OpCode :
                   /\ compilations[k].result.generator.bytecode[1] = OpCode[name]
                   /\ CaseOf(OpCode[name]) = name
        /\ \A name \in EmittedOpcodes :
               /\ name \in DOMAIN OpCode
               /\ Op(name) # undefined
               /\ \A other \in EmittedOpcodes \ {name} : Op(other) # Op(name)
               /\ CaseOf(Op(name)) = name

\* C34: parsing a primary that is a single literal or identifier token
\* consumes exactly that token and leaves the following one to the caller, so
\* that `1;`, `x + 2;` and `f(3);` parse, and `1 2;`, in which a second literal
\* follows the first, is rejected by the parser.
C34_PrimaryConsumesOneToken ==
    \A k \in DOMAIN compilations :
        /\ compilations[k].source \in {OneLiteralSource, SumSource, CallArgumentSource} =>
               compilations[k].result.err.kind # "ParserError"
        /\ compilations[k].source = TwoLiteralsSource =>
               compilations[k].result.err.kind = "ParserError"

\* C35: for every tree the parser can produce the generator's dispatch has a
\* case, array literals and object literals included: no compilation ends
\* with the unhandled-node-type error.
C35_EveryNodeHandled ==
    \A k \in DOMAIN compilations :
        compilations[k].result.err.kind # "Unhandled node type"

-----------------------------------------------------------------------------
(* The parser's test script, test.ts: it tokenizes a source, parses the    *)
(* tokens and logs the tree.  The sources below are written as the parser  *)
(* reads them: it takes the second token of every literal or identifier.   *)

\* 1 2 + 3 4 * 5 6;
SumOfProductSource ==
    <<"1", " ", "2", " ", "+", " ", "3", " ", "4", " ", "*", " ", "5", " ",
      "6", ";">>

\* 1 2 * 3 4 + 5 6;
ProductThenSumSource ==
    <<"1", " ", "2", " ", "*", " ", "3", " ", "4", " ", "+", " ", "5", " ",
      "6", ";">>

\* 1 2 - 3 4 - 5 6;
DifferenceChainSource ==
    <<"1", " ", "2", " ", "-", " ", "3", " ", "4", " ", "-", " ", "5", " ",
      "6", ";">>

\* 1 2 / 3 4 / 5 6;
QuotientChainSource ==
    <<"1", " ", "2", " ", "/", " ", "3", " ", "4", " ", "/", " ", "5", " ",
      "6", ";">>

\* 1 2 < 3 4 + 5 6;
RelationalSumSource ==
    <<"1", " ", "2", " ", "<", " ", "3", " ", "4", " ", "+", " ", "5", " ",
      "6", ";">>

\* 1 2 + 3 4 < 5 6;
SumRelationalSource ==
    <<"1", " ", "2", " ", "+", " ", "3", " ", "4", " ", "<", " ", "5", " ",
      "6", ";">>

\* 1 2 == 3 4 < 5 6;
EqualityRelationalSource ==
    <<"1", " ", "2", " ", "=", "=", " ", "3", " ", "4", " ", "<", " ", "5",
      " ", "6", ";">>

\* 1 2 && 3 4 == 5 6;
AndEqualitySource ==
    <<"1", " ", "2", " ", "&", "&", " ", "3", " ", "4", " ", "=", "=", " ",
      "5", " ", "6", ";">>

\* 1 2 || 3 4 && 5 6;
OrAndSource ==
    <<"1", " ", "2", " ", "|", "|", " ", "3", " ", "4", " ", "&", "&", " ",
      "5", " ", "6", ";">>

\* 1 2 && 3 4 || 5 6;
AndOrSource ==
    <<"1", " ", "2", " ", "&", "&", " ", "3", " ", "4", " ", "|", "|", " ",
      "5", " ", "6", ";">>

\* 1 2 % 3 4 != 5 6 >= 7 8;
MixedLevelsSource ==
    <<"1", " ", "2", " ", "%", " ", "3", " ", "4", " ", "!", "=", " ", "5",
      " ", "6", " ", ">", "=", " ", "7", " ", "8", ";">>

\* a x = b y = 1 2;
AssignmentChainSource ==
    <<"a", " ", "x", " ", "=", " ", "b", " ", "y", " ", "=", " ", "1", " ",
      "2", ";">>

\* a x = 1 2 || 3 4;
AssignmentOrSource ==
    <<"a", " ", "x", " ", "=", " ", "1", " ", "2", " ", "|", "|", " ", "3",
      " ", "4", ";">>

\* a x = b c ? 1 1 : 2 2;
TernaryAssignmentSource ==
    <<"a", " ", "x", " ", "=", " ", "b", " ", "c", " ", "?", " ", "1", " ",
      "1", " ", ":", " ", "2", " ", "2", ";">>

\* fun main() { print("Hi"); }
HelloSource ==
    <<"f", "u", "n", " ", "m", "a", "i", "n", "(", ")", " ", "{", " ", "p",
      "r", "i", "n", "t", "(", "\"", "H", "i", "\"", ")", ";", " ", "}">>

\* The expression sources with the nesting that the ladder of the
\* precedence levels gives them; the tree does not keep a binary operator
\* (an operator token has no value), so that a binary node shows as the
\* pair of its operands.
LadderCases ==
    {<<SumOfProductSource, "(2 (4 6))">>,
     <<ProductThenSumSource, "((2 4) 6)">>,
     <<DifferenceChainSource, "((2 4) 6)">>,
     <<QuotientChainSource, "((2 4) 6)">>,
     <<RelationalSumSource, "(2 (4 6))">>,
     <<SumRelationalSource, "((2 4) 6)">>,
     <<EqualityRelationalSource, "(2 (4 6))">>,
     <<AndEqualitySource, "(2 (4 6))">>,
     <<OrAndSource, "(2 (4 6))">>,
     <<AndOrSource, "((2 4) 6)">>,
     <<MixedLevelsSource, "((2 4) (6 8))">>,
     <<AssignmentChainSource, "(x = (y = 2))">>,
     <<AssignmentOrSource, "(x = (2 4))">>,
     <<TernaryAssignmentSource, "((x = c) ? 1 : 2)">>}

ParseSources == {c[1] : c \in LadderCases} \cup {HelloSource}

MaxParses == 3

\* console.log("Parsed Tokens:", new Parser(tokenize(source)).parse())
ParseTest(source) ==
    /\ pc = "idle"
    /\ Len(output) < MaxParses
    /\ \E lexed \in {tokenize(source)} :
       \E parsed \in {IF lexed.err.kind # "none"
                      THEN [node |-> Undef, i |-> 0, err |-> lexed.err]
                      ELSE parse(lexed.tokens)} :
           IF parsed.err.kind # "none"
           THEN /\ pc' = "error"
                /\ error' = parsed.err
                /\ UNCHANGED output
           ELSE /\ output' = Append(output, parsed.node)
                /\ UNCHANGED <<pc, error>>
    /\ UNCHANGED <<bytecode, constantPool, stack, ip, running, callStack,
                   framePointer, globals, rl, heap, result, hostVars>>

NextParse == \E source \in ParseSources : ParseTest(source)

SpecParse == Init /\ [][NextParse]_vars

\* The nesting of an expression tree, fully parenthesised.
RECURSIVE Shape(_)
Shape(node) ==
    CASE node.type = "Program" -> Shape(node.body[1])
      [] node.type = "ExpressionStatement" -> Shape(node.expression)
      [] node.type = "BinaryExpression" ->
             "(" \o Shape(node.left) \o " " \o Shape(node.right) \o ")"
      [] node.type = "AssignmentExpression" ->
             "(" \o Shape(node.left) \o " = " \o Shape(node.right) \o ")"
      [] node.type = "TernaryExpression" ->
             "(" \o Shape(node.test) \o " ? " \o Shape(node.consequent) \o " : "
                 \o Shape(node.alternate) \o ")"
      [] node.type \in {"Literal", "Identifier"} -> JsToString(node.value)
      [] OTHER -> node.type

-----------------------------------------------------------------------------
(* The literals of one compilation: generate() starts it, and the visitor  *)
(* of a literal runs once for every literal of the program.                *)

LiteralValues ==
    {Num(2), Num(-128), Num(127), Num(128), Num(-129), Float(1, <<"5">>),
     Str("s"), Str("128"), Bool(TRUE), Bool(FALSE), Null}

MaxEmitted == 6

\* visitLiteral(node)
VisitLiteral(value) ==
    /\ codegen.generator.err.kind = "none"
    /\ codegen.generator.currentScope # <<>>
    /\ Len(codegen.generator.bytecode) < MaxEmitted
    /\ codegen' = [codegen EXCEPT
                      !.generator = visitLiteral([type |-> "Literal", value |-> value], @)]
    /\ UNCHANGED <<pc, vmVars, result, error, compilations, files, content>>

NextPool ==
    \/ Generate
    \/ \E value \in LiteralValues : VisitLiteral(value)

SpecPool == Init /\ [][NextPool]_vars

\* The literal is a boolean, null or an integer of -128..127.
Immediate(value) ==
    \/ value.t \in {"boolean", "null"}
    \/ value.t = "number" /\ "fraction" \notin DOMAIN value /\ value.v \in -128..127

IsNatural(x) == x.t = "number" /\ "fraction" \notin DOMAIN x /\ x.v >= 0

\* C39: ARRAY_CREATE with a non-negative integer n on top pushes a new array
\* of n nulls and is a fatal error for any other size; ARRAY_GET and
\* ARRAY_SET are errors when the target is not an array or the index is not
\* an integer of 0..length-1, and otherwise read, or overwrite, exactly the
\* indexed element of the array, every other element, the length and every
\* other array staying as they were, so that the write is seen through every
\* slot that holds the array.
C39_ArrayOperations ==
    [][/\ Fetch("ARRAY_CREATE") =>
              IF ensureStack(1) /\ IsNatural(Top(1))
              THEN /\ pc' = "running"
                   /\ heap' = Append(heap, [i \in 1..Top(1).v |-> Null])
                   /\ stack' = Append(Pop(1), Arr(Len(heap) + 1))
              ELSE pc' = "error" /\ heap' = heap
       /\ Fetch("ARRAY_GET") =>
              IF /\ ensureStack(2)
                 /\ Top(2).t = "array"
                 /\ IsNatural(Top(1))
                 /\ Top(1).v < Len(heap[Top(2).ref])
              THEN /\ pc' = "running"
                   /\ stack' = Append(Pop(2), heap[Top(2).ref][Top(1).v + 1])
                   /\ heap' = heap
              ELSE pc' = "error" /\ heap' = heap
       /\ Fetch("ARRAY_SET") =>
              IF /\ ensureStack(3)
                 /\ Top(3).t = "array"
                 /\ IsNatural(Top(2))
                 /\ Top(2).v < Len(heap[Top(3).ref])
              THEN /\ pc' = "running"
                   /\ stack' = Pop(3)
                   /\ globals' = globals
                   /\ constantPool' = constantPool
                   /\ DOMAIN heap' = DOMAIN heap
                   /\ \A ref \in DOMAIN heap :
                          /\ Len(heap'[ref]) = Len(heap[ref])
                          /\ \A i \in DOMAIN heap[ref] :
                                 heap'[ref][i] =
                                     IF ref = Top(3).ref /\ i = Top(2).v + 1
                                     THEN Top(1) ELSE heap[ref][i]
              ELSE pc' = "error" /\ heap' = heap]_vars

\* The array of the alias program was written through its copy and read
\* through the original: the read gave the value written.
C39_Witness ==
    /\ bytecode = AliasProgram.bytecode
    /\ pc = "running"
    /\ heap = <<<<Num(5), Null>>>>
    /\ stack = <<Num(5)>>

-----------------------------------------------------------------------------
(* Two virtual machines on one artifact.  The constructor keeps the arrays *)
(* it is given, so that the machines of one artifact hold the same         *)
(* bytecode array, the same pool array and the same array values in it.    *)

\* Reads element i of the array that is constant 0, then writes v to it:
\*   0: push arr; 2: push i; 4: ARRAY_GET;
\*   5: push arr; 7: push i; 9: push v; 11: ARRAY_SET; 12: HALT
ReadThenWriteProgram(i, v) ==
    [Artifact(PushC(0) \o PushC(1) \o <<OpCode.ARRAY_GET>>
              \o PushC(0) \o PushC(1) \o PushC(2) \o <<OpCode.ARRAY_SET, OpCode.HALT>>,
              <<Arr(1), Num(i), v>>)
        EXCEPT !.heap = <<<<Null, Null>>>>]

SharedArtifacts ==
    {ReadThenWriteProgram(i, v) : i \in 0..1, v \in Operands \cup {Null, Str("s")}}

\* a first new GyroVM(artifact.bytecode, artifact.constantPool).run()
RunFirst ==
    /\ pc = "idle"
    /\ \E a \in SharedArtifacts : GyroVM(a.bytecode, a.constantPool, a.heap)
    /\ UNCHANGED hostVars

\* The run is over and a second machine is built from the same artifact and
\* run: its bytecode, its pool and the arrays of its pool are the very
\* objects that the first machine had.
RunSecond ==
    /\ pc = "done"
    /\ GyroVM(bytecode, constantPool, heap)
    /\ UNCHANGED hostVars

NextShared ==
    \/ RunFirst
    \/ RunSecond
    \/ ExecPushConst
    \/ ExecArrayGet
    \/ ExecArraySet
    \/ ExecHalt
    \/ RunReturn

SpecShared == Init /\ [][NextShared]_vars

\* C40: a run never modifies the bytecode or the constant pool of its
\* machine, so that every machine built from an artifact gives the result of
\* a machine that runs alone: the array that is constant 0 of the
\* read-then-write program holds two nulls whenever a machine is on it, and
\* every run of the program ends with the null it read.
C40_RunsDoNotInterfere ==
    pc \in {"running", "done"} =>
        /\ \E a \in SharedArtifacts :
               /\ bytecode = a.bytecode
               /\ constantPool = a.constantPool
        /\ heap[constantPool[1].ref] = <<Null, Null>>
        /\ pc = "done" => result = Null
=============================================================================
